---- MODULE Spec2Model ----
(***************************************************************************)
(* Ownership and stream-adapter model of the c2pa C++ wrapper.             *)
(*                                                                         *)
(* Part 1 (Spec, RawSpec): the handle-wrapped resources Settings, Context, *)
(* ContextBuilder, Reader, Builder and Signer.  Every wrapper object holds *)
(* one foreign pointer; the foreign layer is a table of handles on which   *)
(* the factory, release (c2pa_free) and consuming calls act.               *)
(*                                                                         *)
(* Part 2 (StreamSpec): the four stream callbacks of CppIStream,           *)
(* CppOStream and CppIOStream over a std::istream / std::ostream /         *)
(* std::iostream.                                                          *)
(*                                                                         *)
(* Part 3 (PathReaderSpec): the three members of a Reader constructed from *)
(* a file path and the order in which they are released.                   *)
(*                                                                         *)
(* Part 4 (SignerSpec): the signer trampoline under Builder::sign.         *)
(*                                                                         *)
(* Part 5 (ByteVectorSpec): the byte vector built from the (pointer,       *)
(* length) pair of a foreign call.                                         *)
(***************************************************************************)
EXTENDS Integers, Sequences, FiniteSets, Bags, TLC

\* Number of foreign handles that can be referred to at the same time.
MaxHandles == 3

\* Number of wrapper objects that can exist at the same time.
NObj == 2

\* Largest number of bytes the wrapped stream can hold.
MaxLen == 2

\* Largest size argument a callback is called with.
MaxSize == 2

\* Number of Reader constructions from a file path in one behaviour.
MaxIds == 3

\* Largest sig_max_len the signer trampoline is called with; the callback
\* returns up to one byte more.
MaxSig == 3

VARIABLES
    objs,       \* the wrapper objects that exist: a bag of [kind, ptr]
    foreign,    \* foreign handle table: handle -> "unalloc", "live", "freed", "consumed"
    violation,  \* the first release of a handle that was not live, "none" so far
    last,       \* what the last wrapper operation did
    aliased,    \* a raw-pointer constructor was given a pointer a live wrapper holds
    variant,    \* adapter class: "I" (CppIStream), "O" (CppOStream), "IO" (CppIOStream)
    strm,       \* the wrapped std stream
    outbuf,     \* bytes the last read callback copied into the caller's buffer
    ret,        \* return value of the last callback
    errno_,     \* the code the last callback stored in errno, 0 when it stored none
    called,     \* the last callback and its arguments
    rd,         \* Readers constructed from a file path and what they own
    sig,        \* the signer trampoline: its arguments, the callback, its result
    vec         \* the last (pointer, length) pair turned into a byte vector

hvars == <<objs, foreign, violation, last, aliased, rd, sig, vec>>
svars == <<variant, strm, outbuf, ret, errno_, called, rd, sig, vec>>
vars == <<objs, foreign, violation, last, aliased, variant, strm, outbuf, ret,
          errno_, called, rd, sig, vec>>

\* The variables of the handle wrappers and of the stream adapters.
wvars == <<objs, foreign, violation, last, aliased, variant, strm, outbuf, ret,
           errno_, called>>

Min(a, b) == IF a < b THEN a ELSE b

----------------------------------------------------------------------------
(* The foreign layer: handles, factory calls, c2pa_free, consuming calls.  *)

NULL == 0
Handles == 1..MaxHandles

\* A handle nobody has been given yet, NULL when the pool is used up.
Fresh(F) ==
    IF \E h \in Handles : F[h] = "unalloc"
    THEN CHOOSE h \in Handles :
            /\ F[h] = "unalloc"
            /\ \A k \in Handles : F[k] = "unalloc" => h <= k
    ELSE NULL

\* Result of a factory call: a new handle, or NULL when the call fails.
c2pa_new(F, ok) == IF ok THEN Fresh(F) ELSE NULL

\* The handle table after the factory returned p.
Alloc(F, p) == IF p = NULL THEN F ELSE [F EXCEPT ![p] = "live"]

\* c2pa_free(p): a no-op on NULL; releases a live handle.
c2pa_free(F, p) ==
    IF p = NULL THEN F
    ELSE [F EXCEPT ![p] = IF @ = "live" THEN "freed" ELSE @]

\* What c2pa_free(p) violates in table F: nothing for NULL or a live handle;
\* a handle released before, or one a consuming call has taken, must not be
\* released.  v is the violation recorded so far (the first one is kept).
Misuse(F, p, v) ==
    IF v # "none" \/ p = NULL THEN v
    ELSE IF F[p] = "freed" THEN "released_twice"
    ELSE IF F[p] = "consumed" THEN "released_after_consumed"
    ELSE v

\* A consuming call takes ownership of p whether it succeeds or fails.
Consume(F, p) ==
    IF p = NULL THEN F
    ELSE [F EXCEPT ![p] = IF @ = "live" THEN "consumed" ELSE @]

\* A handle that no wrapper in B refers to can no longer be observed or
\* released through a wrapper, whether it is gone (released or consumed) or
\* still live (leaked): its slot in the table is free again.
Recycle(F, B) ==
    [h \in Handles |->
        IF \E o \in BagToSet(B) : o.ptr = h THEN F[h] ELSE "unalloc"]

----------------------------------------------------------------------------
(* Wrapper objects.                                                        *)

Kinds == {"Settings", "Context", "ContextBuilder", "Reader", "Builder", "Signer"}

Obj(k, p) == [kind |-> k, ptr |-> p]

\* The objects of kind k that exist.
Objects(k) == {o \in BagToSet(objs) : o.kind = k}

\* a and b can be two different objects.
Distinct(a, b) == a # b \/ CopiesIn(a, objs) >= 2

\* There is room for one more object.
Room == BagCardinality(objs) < NObj

\* Bag B with one object o more / less, and with o replaced by n.
Put(B, o) == B (+) SetToBag({o})
Take(B, o) == B (-) SetToBag({o})
Replace(B, o, n) == Put(Take(B, o), n)

\* Record of one wrapper operation:
\*   op      the operation
\*   threw   it raised an exception
\*   nullArg it passed a null handle to a foreign function other than c2pa_free
\*   issued  it issued a consuming foreign call
\*   fnull   a foreign call it made returned its failure sentinel
\*   field   the object's handle field when the operation returned or threw
\*   exc     the exception it raised, "none" when it returned
\*   calls   the foreign calls it made, the c_context() accessor calls and
\*           the file steps of Builder::sign's path overload, in order
\*           (c2pa_free(nullptr), which does nothing, is left out;
\*           "create_stream_null" is a c2pa_create_stream that returned null;
\*           at a consuming site "null_field" is the assignment of nullptr
\*           to the handle field and "assign_field" that of the result)
\*   ctx     the context handle it passed to the foreign layer, NULL for none
Rec(op, threw, nullArg, issued, fnull, field) ==
    [op |-> op, threw |-> threw, nullArg |-> nullArg,
     issued |-> issued, fnull |-> fnull, field |-> field,
     exc |-> IF threw THEN "C2paException(message)" ELSE "none",
     calls |-> << >>, ctx |-> NULL]

\* C2paException::C2paException(): the message is read from the foreign
\* last-error accessor and the buffer it came in is released.
C2paException_default == <<"c2pa_error", "free_message">>

\* The calls of a release of pointer p.
Release(p) == IF p = NULL THEN << >> ELSE <<"c2pa_free">>

\* The calls that create n stream adapters ("create_stream") or release
\* them ("release_stream").
Adapters(call, n) == [k \in 1..n |-> call]

\* The number of times call e occurs in trace s.
Times(s, e) == Cardinality({k \in 1..Len(s) : s[k] = e})

\* An operation that would pass along, with its own foreign calls, the
\* context handle the operation before it was given.
Did_keeping_context(calls, rec) ==
    [rec EXCEPT !.calls = calls,
                !.ctx = last.ctx,
                !.exc = IF ~rec.threw THEN "none"
                        ELSE IF Times(calls, "c2pa_error") > 0 THEN "C2paException()"
                        ELSE "C2paException(message)"]

\* Record rec of an operation that made the foreign calls `calls`: when it
\* threw, the exception is the default-constructed C2paException exactly
\* when the last-error accessor was read.
Did(calls, rec) ==
    [rec EXCEPT !.calls = calls,
                !.exc = IF ~rec.threw THEN "none"
                        ELSE IF Times(calls, "c2pa_error") > 0 THEN "C2paException()"
                        ELSE "C2paException(message)"]

\* Record rec of an operation that called c_context() on a context provider
\* and passed the handle h it got to the foreign layer.
WithContext(h, rec) == [rec EXCEPT !.ctx = h]

\* Record rec of an operation that ended by throwing exception exc.
Raised(exc, rec) == [rec EXCEPT !.exc = exc]

\* The effect of an operation on the wrappers and the foreign layer: the
\* objects B that exist afterwards, the handle table F the operation's
\* foreign calls left, and the handle p it passed to c2pa_free (NULL: none).
Effect(B, F, p) ==
    /\ objs' = B
    /\ foreign' = Recycle(F, B)
    /\ violation' = Misuse(foreign, p, violation)

\* An operation that changes neither a wrapper nor a handle.
NoEffect == UNCHANGED <<objs, foreign, violation>>

\* A move constructor that would copy other's pointer and leave it in other.
MoveCtor_copy(other) ==
    /\ Room
    /\ Effect(Put(objs, other), foreign, NULL)
    /\ last' = Rec("move", FALSE, FALSE, FALSE, FALSE, other.ptr)

\* T(T&& other): take other's pointer, leave other null.
MoveCtor(other) ==
    /\ Room
    /\ Effect(Put(Replace(objs, other, Obj(other.kind, NULL)), other), foreign, NULL)
    /\ last' = Rec("move", FALSE, FALSE, FALSE, FALSE, other.ptr)

\* T& operator=(T&& other) on object a: release the own pointer, take
\* other's, leave other null.
MoveAssign(a, other) ==
    /\ Distinct(a, other)
    /\ a.kind = other.kind
    /\ Effect(Put(Replace(Take(objs, a), other, Obj(other.kind, NULL)), other),
              c2pa_free(foreign, a.ptr), a.ptr)
    /\ last' = Did(Release(a.ptr),
                    Rec("move_assign", FALSE, FALSE, FALSE, FALSE, other.ptr))

\* ~T(): release the pointer; the object is gone.
Destroy(a) ==
    /\ Effect(Take(objs, a), c2pa_free(foreign, a.ptr), a.ptr)
    /\ last' = Did(Release(a.ptr), Rec("dtor", FALSE, FALSE, FALSE, FALSE, NULL))

\* The objects after a constructor of kind k ended with pointer p: the new
\* object exists unless the constructor threw.
Constructed(k, threw, p) == IF threw THEN objs ELSE Put(objs, Obj(k, p))

----------------------------------------------------------------------------
(* Settings (c2pa_settings.cpp).                                           *)

\* Settings::Settings()
Settings_default ==
    /\ Room
    /\ \E ok \in BOOLEAN :
         LET p == c2pa_new(foreign, ok) IN
         /\ Effect(Constructed("Settings", p = NULL, p), Alloc(foreign, p), NULL)
         /\ last' = Did(<<"new">>,
                         Rec("Settings()", p = NULL, FALSE, FALSE, p = NULL, p))
    /\ UNCHANGED <<aliased>>
    /\ UNCHANGED svars

\* Settings::Settings(data, format): when the update fails the new handle is
\* released before the exception is thrown.
Settings_from_string ==
    /\ Room
    /\ \E o \in {"new_fails", "update_fails", "ok"} :
         LET p  == c2pa_new(foreign, o # "new_fails")
             F1 == Alloc(foreign, p)
             failed == p # NULL /\ o = "update_fails"
         IN
         /\ Effect(Constructed("Settings", p = NULL \/ failed, p),
                   IF failed THEN c2pa_free(F1, p) ELSE F1, NULL)
         /\ last' = Did(IF p = NULL THEN <<"new">>
                         ELSE IF failed
                         THEN <<"new", "call", "c2pa_free">> \o C2paException_default
                         ELSE <<"new", "call">>,
                         Rec("Settings(data,format)", p = NULL \/ failed, FALSE,
                             FALSE, p = NULL \/ failed, p))
    /\ UNCHANGED <<aliased>>
    /\ UNCHANGED svars

Settings_move(other) ==
    other.kind = "Settings" /\ MoveCtor(other) /\ UNCHANGED <<aliased>> /\ UNCHANGED svars

Settings_move_assign(a, other) ==
    a.kind = "Settings" /\ MoveAssign(a, other) /\ UNCHANGED <<aliased>> /\ UNCHANGED svars

Settings_dtor(a) ==
    a.kind = "Settings" /\ Destroy(a) /\ UNCHANGED <<aliased>> /\ UNCHANGED svars

\* A set / update that would forward settings_ptr without testing it.
Settings_mutate_unchecked(op, a) ==
    /\ a.kind = "Settings"
    /\ \E ok \in BOOLEAN :
         last' = Did(IF ok THEN <<"call">>
                     ELSE <<"call">> \o C2paException_default,
                     Rec(op, ~ok, a.ptr = NULL, FALSE, ~ok, a.ptr))
    /\ NoEffect
    /\ UNCHANGED <<aliased>>
    /\ UNCHANGED svars

\* Settings::set(path, json_value) and Settings::update(data, format): both
\* refuse a null settings_ptr, then make one non-consuming call.
Settings_mutate(op, a) ==
    /\ a.kind = "Settings"
    /\ \E ok \in (IF a.ptr = NULL THEN {FALSE} ELSE BOOLEAN) :
         last' = Did(IF a.ptr = NULL THEN << >>
                     ELSE IF ok THEN <<"call">>
                     ELSE <<"call">> \o C2paException_default,
                     Rec(op, ~ok, FALSE, FALSE, a.ptr # NULL /\ ~ok, a.ptr))
    /\ NoEffect
    /\ UNCHANGED <<aliased>>
    /\ UNCHANGED svars

Settings_set(a) == Settings_mutate("Settings::set", a)

Settings_update(a) == Settings_mutate("Settings::update", a)

----------------------------------------------------------------------------
(* Context and Context::ContextBuilder (c2pa_context.cpp).                 *)

\* Context::Context(C2paContext* ctx) given pointer p, with F the handle
\* table at the call: takes ownership of p, refuses NULL.
Context_from_ptr(F, p) ==
    /\ Room
    /\ Effect(Constructed("Context", p = NULL, p), F, NULL)
    /\ last' = Rec("Context(ptr)", p = NULL, FALSE, FALSE, FALSE, p)

\* Context::c_context() and Context::is_valid() on Context object c.
Context_c_context(c) == c.ptr

Context_is_valid(c) == c.ptr # NULL

\* Context() as it would be without the test of the pointer the factory gave.
Context_default_unchecked ==
    /\ Room
    /\ \E ok \in BOOLEAN :
         LET p == c2pa_new(foreign, ok) IN
         /\ Effect(Constructed("Context", FALSE, p), Alloc(foreign, p), NULL)
         /\ last' = Did(<<"new">>,
                         Rec("Context()", FALSE, FALSE, FALSE, p = NULL, p))
    /\ UNCHANGED <<aliased>>
    /\ UNCHANGED svars

\* Context::Context()
Context_default ==
    /\ Room
    /\ \E ok \in BOOLEAN :
         LET p == c2pa_new(foreign, ok) IN
         /\ Effect(Constructed("Context", p = NULL, p), Alloc(foreign, p), NULL)
         /\ last' = Did(<<"new">>,
                         Rec("Context()", p = NULL, FALSE, FALSE, p = NULL, p))
    /\ UNCHANGED <<aliased>>
    /\ UNCHANGED svars

\* Outcomes of the foreign calls made by Context(const Settings&).
BuildOutcomes == {"new_fails", "set_fails", "build_fails", "ok"}

\* Body of Context::Context(const Settings&) once settings.is_valid() held:
\* new builder, set_settings (release the builder when it fails), build
\* (consumes the builder).  Gives the handle table, the context pointer,
\* whether the consuming build call was issued, and the foreign calls made.
BuildFromSettings(F, o) ==
    LET b  == c2pa_new(F, o # "new_fails")
        F1 == Alloc(F, b)
    IN  IF b = NULL
        THEN [F |-> F, p |-> NULL, issued |-> FALSE, calls |-> <<"new">>]
        ELSE IF o = "set_fails"
        THEN [F |-> c2pa_free(F1, b), p |-> NULL, issued |-> FALSE,
              calls |-> <<"new", "call", "c2pa_free">> \o C2paException_default]
        ELSE LET F2 == Consume(F1, b)
                 c  == c2pa_new(F2, o # "build_fails")
             IN  [F |-> Alloc(F2, c), p |-> c, issued |-> TRUE,
                  calls |-> <<"new", "call", "consume">>]

\* Context(const Settings&) as it would be if set_settings took ownership of
\* the Settings handle it is given.
Context_from_settings_taking(s) ==
    /\ Room
    /\ s.kind = "Settings"
    /\ IF s.ptr = NULL
       THEN /\ NoEffect
            /\ last' = Rec("Context(settings)", TRUE, FALSE, FALSE, FALSE, NULL)
       ELSE \E o \in BuildOutcomes :
              LET r == BuildFromSettings(foreign, o) IN
              /\ Effect(Constructed("Context", r.p = NULL, r.p),
                        IF o = "new_fails" THEN r.F ELSE Consume(r.F, s.ptr), NULL)
              /\ last' = Did(r.calls,
                              Rec("Context(settings)", r.p = NULL, FALSE,
                                  r.issued, r.p = NULL, r.p))
    /\ UNCHANGED <<aliased>>
    /\ UNCHANGED svars

\* Context::Context(const Settings& settings)
Context_from_settings(s) ==
    /\ Room
    /\ s.kind = "Settings"
    /\ IF s.ptr = NULL
       THEN /\ NoEffect
            /\ last' = Rec("Context(settings)", TRUE, FALSE, FALSE, FALSE, NULL)
       ELSE \E o \in BuildOutcomes :
              LET r == BuildFromSettings(foreign, o) IN
              /\ Effect(Constructed("Context", r.p = NULL, r.p), r.F, NULL)
              /\ last' = Did(r.calls,
                              Rec("Context(settings)", r.p = NULL, FALSE,
                                  r.issued, r.p = NULL, r.p))
    /\ UNCHANGED <<aliased>>
    /\ UNCHANGED svars

\* Context::Context(const std::string& json): a temporary Settings(json, "json"),
\* Context(settings) on it, then the temporary is destroyed.
Context_from_json ==
    /\ Room
    /\ \E o \in {"settings_new_fails", "settings_update_fails"} \cup BuildOutcomes :
         LET t  == c2pa_new(foreign, o # "settings_new_fails")
             F1 == Alloc(foreign, t)
         IN  IF t = NULL \/ o = "settings_update_fails"
             THEN /\ Effect(objs, c2pa_free(F1, t), NULL)
                  /\ last' = Did(IF t = NULL THEN <<"new">>
                                  ELSE <<"new", "call", "c2pa_free">>
                                          \o C2paException_default,
                                  Rec("Context(json)", TRUE, FALSE, FALSE, TRUE, NULL))
             ELSE LET r == BuildFromSettings(F1, o) IN
                  /\ Effect(Constructed("Context", r.p = NULL, r.p),
                            c2pa_free(r.F, t), NULL)
                  /\ last' = Did(<<"new", "call">> \o r.calls \o <<"c2pa_free">>,
                                  Rec("Context(json)", r.p = NULL, FALSE,
                                      r.issued, r.p = NULL, r.p))
    /\ UNCHANGED <<aliased>>
    /\ UNCHANGED svars

Context_move(other) ==
    other.kind = "Context" /\ MoveCtor(other) /\ UNCHANGED <<aliased>> /\ UNCHANGED svars

Context_move_assign(a, other) ==
    a.kind = "Context" /\ MoveAssign(a, other) /\ UNCHANGED <<aliased>> /\ UNCHANGED svars

Context_dtor(a) ==
    a.kind = "Context" /\ Destroy(a) /\ UNCHANGED <<aliased>> /\ UNCHANGED svars

\* Context::ContextBuilder::ContextBuilder()
ContextBuilder_default ==
    /\ Room
    /\ \E ok \in BOOLEAN :
         LET p == c2pa_new(foreign, ok) IN
         /\ Effect(Constructed("ContextBuilder", p = NULL, p), Alloc(foreign, p), NULL)
         /\ last' = Did(<<"new">>,
                         Rec("ContextBuilder()", p = NULL, FALSE, FALSE, p = NULL, p))
    /\ UNCHANGED <<aliased>>
    /\ UNCHANGED svars

ContextBuilder_move(other) ==
    /\ other.kind = "ContextBuilder"
    /\ MoveCtor(other) /\ UNCHANGED <<aliased>> /\ UNCHANGED svars

ContextBuilder_move_assign(a, other) ==
    /\ a.kind = "ContextBuilder"
    /\ MoveAssign(a, other) /\ UNCHANGED <<aliased>> /\ UNCHANGED svars

ContextBuilder_dtor(a) ==
    /\ a.kind = "ContextBuilder"
    /\ Destroy(a) /\ UNCHANGED <<aliased>> /\ UNCHANGED svars

\* ContextBuilder::with_settings(const Settings&): non-consuming set_settings.
ContextBuilder_with_settings(a, s) ==
    /\ a.kind = "ContextBuilder"
    /\ s.kind = "Settings"
    /\ LET invalid == a.ptr = NULL \/ s.ptr = NULL IN
       \E ok \in (IF invalid THEN {FALSE} ELSE BOOLEAN) :
         last' = Did(IF invalid THEN << >>
                     ELSE IF ok THEN <<"call">>
                     ELSE <<"call">> \o C2paException_default,
                     Rec("with_settings", ~ok, FALSE, FALSE, ~invalid /\ ~ok, a.ptr))
    /\ NoEffect
    /\ UNCHANGED <<aliased>>
    /\ UNCHANGED svars

\* with_settings(Settings(json, "json")) on a valid builder: the temporary
\* Settings is created, handed to set_settings, and released on every path.
WithJsonBody(op, a) ==
    \E o \in {"settings_new_fails", "settings_update_fails", "set_fails", "ok"} :
        LET t  == c2pa_new(foreign, o # "settings_new_fails")
            F1 == Alloc(foreign, t)
            failed == t = NULL \/ o # "ok"
        IN  /\ Effect(objs, c2pa_free(F1, t), NULL)
            /\ last' = Did(IF t = NULL THEN <<"new">>
                            ELSE IF o = "settings_update_fails"
                            THEN <<"new", "call", "c2pa_free">> \o C2paException_default
                            ELSE IF o = "set_fails"
                            THEN <<"new", "call", "call">> \o C2paException_default
                                    \o <<"c2pa_free">>
                            ELSE <<"new", "call", "call", "c2pa_free">>,
                            Rec(op, failed, FALSE, FALSE, failed, a.ptr))

\* ContextBuilder::with_json(json)
ContextBuilder_with_json(a) ==
    /\ a.kind = "ContextBuilder"
    /\ IF a.ptr = NULL
       THEN /\ NoEffect
            /\ last' = Rec("with_json", TRUE, FALSE, FALSE, FALSE, NULL)
       ELSE WithJsonBody("with_json", a)
    /\ UNCHANGED <<aliased>>
    /\ UNCHANGED svars

\* ContextBuilder::with_json_settings_file(path): open the file (a local
\* failure when it cannot be opened), then with_json on its content.
ContextBuilder_with_json_settings_file(a) ==
    /\ a.kind = "ContextBuilder"
    /\ \E okOpen \in BOOLEAN :
         IF a.ptr = NULL \/ ~okOpen
         THEN /\ NoEffect
              /\ last' = Rec("with_json_settings_file", TRUE, FALSE, FALSE,
                             FALSE, a.ptr)
         ELSE WithJsonBody("with_json_settings_file", a)
    /\ UNCHANGED <<aliased>>
    /\ UNCHANGED svars

\* The builder's field after create_context issued the build call on
\* context_builder and got ctx back: it is set to nullptr only after the null
\* check of ctx has passed.
BuilderFieldAfterBuild(context_builder, ctx) ==
    IF ctx = NULL THEN context_builder ELSE NULL

\* ContextBuilder::create_context(): the build call consumes context_builder;
\* the Context it returns is a new object.
ContextBuilder_create_context(a) ==
    /\ a.kind = "ContextBuilder"
    /\ Room
    /\ IF a.ptr = NULL
       THEN /\ NoEffect
            /\ last' = Rec("create_context", TRUE, FALSE, FALSE, FALSE, NULL)
       ELSE \E ok \in BOOLEAN :
              LET F1  == Consume(foreign, a.ptr)
                  ctx == c2pa_new(F1, ok)
                  fld == BuilderFieldAfterBuild(a.ptr, ctx)
                  B1  == Replace(objs, a, Obj("ContextBuilder", fld))
              IN  /\ Effect(IF ctx = NULL THEN B1 ELSE Put(B1, Obj("Context", ctx)),
                            Alloc(F1, ctx), NULL)
                  /\ last' = Did(IF ctx = NULL THEN <<"consume">>
                                  ELSE <<"consume", "null_field">>,
                                  Rec("create_context", ctx = NULL, FALSE, TRUE,
                                      ctx = NULL, fld))
    /\ UNCHANGED <<aliased>>
    /\ UNCHANGED svars

----------------------------------------------------------------------------
(* Consuming call sites of Reader and Builder.                             *)

\* A consuming site that would set the field from the result only when the
\* call succeeded, and so keep the consumed pointer when it fails.
FieldAfterConsuming_keep(old, updated) == IF updated = NULL THEN old ELSE updated

\* updated = consuming_call(field); field = nullptr; if (updated == nullptr)
\* throw; field = updated;  -- the field when the site returns or throws.
FieldAfterConsuming(old, updated) == updated

\* A consuming call on pointer p: p is taken, and a new handle (or NULL on
\* failure, always NULL for a null p) comes back.
ConsumingCall(F, p, ok) ==
    LET F1 == Consume(F, p)
        u  == c2pa_new(F1, ok /\ p # NULL)
    IN  [F |-> Alloc(F1, u), updated |-> u]

----------------------------------------------------------------------------
(* Reader (c2pa_reader.cpp, c2pa.hpp).                                     *)

\* The calls of a context-taking Reader constructor that got as far as the
\* consuming c2pa_reader_with_stream, which returned updated: when it failed
\* the exception is built first and the adapter member is released as the
\* constructor unwinds.
AttachCalls(updated) ==
    <<"c_context", "new", "create_stream", "consume", "null_field">>
        \o (IF updated = NULL THEN C2paException_default \o <<"release_stream">>
            ELSE <<"assign_field">>)

\* Reader::Reader(IContextProvider&, format, stream): create the reader from
\* the context, create the adapter, then the consuming c2pa_reader_with_stream.
Reader_from_context_stream(c) ==
    /\ Room
    /\ c.kind = "Context"
    /\ IF c.ptr = NULL
       THEN /\ NoEffect
            /\ last' = Rec("Reader(context,format,stream)", TRUE, FALSE,
                           FALSE, FALSE, NULL)
       ELSE \E o \in {"new_fails", "adapter_fails", "with_stream_fails", "ok"} :
              LET r  == c2pa_new(foreign, o # "new_fails")
                  F1 == Alloc(foreign, r)
                  cc == ConsumingCall(F1, r, o = "ok")
                  fld == FieldAfterConsuming(r, cc.updated)
              IN  IF r = NULL \/ o = "adapter_fails"
                  THEN /\ Effect(objs, F1, NULL)
                       /\ last' = WithContext(c.ptr,
                                    Did(IF r = NULL THEN <<"c_context", "new">>
                                        ELSE <<"c_context", "new", "create_stream_null">>,
                                        Rec("Reader(context,format,stream)", TRUE,
                                            FALSE, FALSE, TRUE, r)))
                  ELSE /\ Effect(Constructed("Reader", cc.updated = NULL, fld),
                                 cc.F, NULL)
                       /\ last' = WithContext(c.ptr,
                                    Did(AttachCalls(cc.updated),
                                        Rec("Reader(context,format,stream)",
                                            cc.updated = NULL, FALSE, TRUE,
                                            cc.updated = NULL, fld)))
    /\ UNCHANGED <<aliased>>
    /\ UNCHANGED svars

\* Reader::Reader(IContextProvider&, path): as above, and the file is opened
\* after the reader was created; when it cannot be opened the reader is
\* released and std::system_error is thrown.
Reader_from_context_path(c) ==
    /\ Room
    /\ c.kind = "Context"
    /\ IF c.ptr = NULL
       THEN /\ NoEffect
            /\ last' = Rec("Reader(context,path)", TRUE, FALSE, FALSE,
                           FALSE, NULL)
       ELSE \E o \in {"new_fails", "open_fails", "adapter_fails",
                      "with_stream_fails", "ok"} :
              LET r  == c2pa_new(foreign, o # "new_fails")
                  F1 == Alloc(foreign, r)
                  cc == ConsumingCall(F1, r, o = "ok")
                  fld == FieldAfterConsuming(r, cc.updated)
              IN  IF r = NULL \/ o = "adapter_fails"
                  THEN /\ Effect(objs, F1, NULL)
                       /\ last' = WithContext(c.ptr,
                                    Did(IF r = NULL THEN <<"c_context", "new">>
                                        ELSE <<"c_context", "new", "create_stream_null">>,
                                        Rec("Reader(context,path)", TRUE, FALSE,
                                            FALSE, TRUE, r)))
                  ELSE IF o = "open_fails"
                  THEN /\ Effect(objs, c2pa_free(F1, r), NULL)
                       /\ last' = WithContext(c.ptr,
                                    Raised("std::system_error",
                                        Did(<<"c_context", "new", "c2pa_free">>,
                                            Rec("Reader(context,path)", TRUE, FALSE,
                                                FALSE, FALSE, r))))
                  ELSE /\ Effect(Constructed("Reader", cc.updated = NULL, fld),
                                 cc.F, NULL)
                       /\ last' = WithContext(c.ptr,
                                    Did(AttachCalls(cc.updated),
                                        Rec("Reader(context,path)",
                                            cc.updated = NULL, FALSE, TRUE,
                                            cc.updated = NULL, fld)))
    /\ UNCHANGED <<aliased>>
    /\ UNCHANGED svars

\* Reader::Reader(format, stream) and Reader::Reader(path) (deprecated): the
\* path form opens the file (std::system_error when it cannot), both create
\* the adapter and make one factory call.
Reader_from_stream ==
    /\ Room
    /\ \E o \in {"open_fails", "adapter_fails", "new_fails", "ok"} :
         LET r == c2pa_new(foreign, o = "ok") IN
         /\ Effect(Constructed("Reader", r = NULL, r), Alloc(foreign, r), NULL)
         /\ last' = IF o = "open_fails"
                    THEN Raised("std::system_error",
                                Rec("Reader(stream)", TRUE, FALSE, FALSE, FALSE, r))
                    ELSE IF o = "adapter_fails"
                    THEN Did(<<"create_stream_null">>,
                             Rec("Reader(stream)", TRUE, FALSE, FALSE, TRUE, r))
                    ELSE Did(<<"create_stream", "new">>
                                \o (IF r = NULL
                                    THEN C2paException_default \o <<"release_stream">>
                                    ELSE << >>),
                             Rec("Reader(stream)", r = NULL, FALSE, FALSE, r = NULL, r))
    /\ UNCHANGED <<aliased>>
    /\ UNCHANGED svars

Reader_move(other) ==
    other.kind = "Reader" /\ MoveCtor(other) /\ UNCHANGED <<aliased>> /\ UNCHANGED svars

Reader_move_assign(a, other) ==
    a.kind = "Reader" /\ MoveAssign(a, other) /\ UNCHANGED <<aliased>> /\ UNCHANGED svars

Reader_dtor(a) ==
    a.kind = "Reader" /\ Destroy(a) /\ UNCHANGED <<aliased>> /\ UNCHANGED svars

\* A non-consuming call whose return code would be ignored.
UncheckedCall_ignoring(k, op, a, throws) ==
    /\ a.kind = k
    /\ \E ok \in (IF a.ptr = NULL THEN {FALSE} ELSE BOOLEAN) :
         last' = Did(<<"call">>, Rec(op, FALSE, a.ptr = NULL, FALSE, ~ok, a.ptr))
    /\ NoEffect
    /\ UNCHANGED <<aliased>>
    /\ UNCHANGED svars

\* An operation that hands the handle field to a non-consuming foreign call
\* without looking at it first.  throws: whether the operation raises when
\* the foreign call reports failure.  A null handle makes the foreign call fail.
UncheckedCall(k, op, a, throws) ==
    /\ a.kind = k
    /\ \E ok \in (IF a.ptr = NULL THEN {FALSE} ELSE BOOLEAN) :
         last' = Did(IF throws /\ ~ok THEN <<"call">> \o C2paException_default
                     ELSE <<"call">>,
                     Rec(op, throws /\ ~ok, a.ptr = NULL, FALSE, ~ok, a.ptr))
    /\ NoEffect
    /\ UNCHANGED <<aliased>>
    /\ UNCHANGED svars

\* Reader::json()
Reader_json(a) == UncheckedCall("Reader", "Reader::json", a, TRUE)

\* Reader::remote_url(): a null result is "no value", not an error.
Reader_remote_url(a) == UncheckedCall("Reader", "Reader::remote_url", a, FALSE)

\* Reader::is_embedded()
Reader_is_embedded(a) == UncheckedCall("Reader", "Reader::is_embedded", a, FALSE)

\* A wrapper operation that first opens a file (path form; open_file_binary
\* throws C2paException when it cannot), creates a stream adapter and then
\* makes one non-consuming foreign call on the unchecked handle field; the
\* adapter is released when the operation returns or unwinds.
LocalThenCall(k, op, a) ==
    /\ a.kind = k
    /\ \E o \in (IF a.ptr = NULL THEN {"open_fails", "adapter_fails", "call_fails"}
                 ELSE {"open_fails", "adapter_fails", "call_fails", "ok"}) :
         last' = IF o = "open_fails"
                 THEN Rec(op, TRUE, FALSE, FALSE, FALSE, a.ptr)
                 ELSE IF o = "adapter_fails"
                 THEN Did(<<"create_stream_null">>,
                          Rec(op, TRUE, FALSE, FALSE, TRUE, a.ptr))
                 ELSE Did(<<"create_stream", "call">>
                             \o (IF o = "ok" THEN << >> ELSE C2paException_default)
                             \o <<"release_stream">>,
                          Rec(op, o # "ok", a.ptr = NULL, FALSE, o # "ok", a.ptr))
    /\ NoEffect
    /\ UNCHANGED <<aliased>>
    /\ UNCHANGED svars

\* Reader::get_resource(uri, stream | path): the destination is opened and
\* wrapped first, then the foreign call gets the unchecked handle field.
Reader_get_resource(a) == LocalThenCall("Reader", "Reader::get_resource", a)

----------------------------------------------------------------------------
(* Reader built from a file path: c2pa_reader, owned_stream, cpp_stream.   *)

\* No Reader object.
RNone == [exists |-> FALSE, h |-> NULL, file |-> NULL, adapter |-> NULL]

\* Construction number k creates foreign reader handle k, std::ifstream k
\* and adapter k; adapter k wraps ifstream k (its context pointer is the
\* address of ifstream k) and handle k is attached to adapter k.
\*   handle   "unalloc", "bare" (created, no stream yet), "live", "gone"
\*   file     "unalloc", "open", "destroyed"
\*   adapter  "unalloc", "live", "released"
\*   early    a file stream was destroyed while its adapter was unreleased
\*   dangling a handle was live while its adapter was released or its
\*            file stream destroyed
ReaderInit ==
    [r |-> [x \in {"a", "b"} |-> RNone],
     handle |-> [k \in 1..MaxIds |-> "unalloc"],
     file |-> [k \in 1..MaxIds |-> "unalloc"],
     adapter |-> [k \in 1..MaxIds |-> "unalloc"],
     early |-> FALSE, dangling |-> FALSE, op |-> "none"]

\* The event `kind` on pointer p; nothing happens on a null pointer.
Ev(kind, p) == IF p = NULL THEN << >> ELSE << <<kind, p>> >>

\* The state after the events es happened in order.
RECURSIVE Run(_, _)
Run(st, es) ==
    IF es = << >> THEN st
    ELSE LET e  == Head(es)
             k  == e[2]
             s1 == CASE e[1] = "new" -> [st EXCEPT !.handle[k] = "bare"]
                     [] e[1] = "open" -> [st EXCEPT !.file[k] = "open"]
                     [] e[1] = "create_stream" -> [st EXCEPT !.adapter[k] = "live"]
                     [] e[1] = "attach" -> [st EXCEPT !.handle[k] = "live"]
                     [] e[1] \in {"consume", "c2pa_free"} ->
                            [st EXCEPT !.handle[k] = "gone"]
                     [] e[1] = "release_stream" ->
                            [st EXCEPT !.adapter[k] = "released"]
                     [] e[1] = "destroy" ->
                            [st EXCEPT !.file[k] = "destroyed",
                                       !.early = @ \/ st.adapter[k] = "live"]
             s2 == [s1 EXCEPT !.dangling =
                        @ \/ \E j \in 1..MaxIds :
                                /\ s1.handle[j] = "live"
                                /\ \/ s1.adapter[j] # "live"
                                   \/ s1.file[j] # "open"]
         IN  Run(s2, Tail(es))

\* Reader::Reader(IContextProvider&, path) and Reader::Reader(path) into
\* variable x.  The context form creates the reader first and attaches the
\* stream with a consuming call; the plain form opens the file first and
\* creates the reader from the stream.  A constructor that throws destroys
\* the members it has set, cpp_stream before owned_stream.
PathReader_ctor(x) ==
    /\ ~rd.r[x].exists
    /\ \E k \in 1..MaxIds :
         /\ rd.handle[k] = "unalloc" /\ rd.file[k] = "unalloc"
         /\ \A j \in 1..(k - 1) : rd.handle[j] # "unalloc" \/ rd.file[j] # "unalloc"
         /\ \E form \in {"context", "plain"} :
            \E o \in {"new_fails", "open_fails", "adapter_fails", "attach_fails", "ok"} :
              LET full == CASE o = "new_fails" -> << >>
                            [] o = "open_fails" -> <<<<"new", k>>, <<"c2pa_free", k>>>>
                            [] o = "adapter_fails" ->
                                 <<<<"new", k>>, <<"open", k>>, <<"destroy", k>>>>
                            [] o = "attach_fails" ->
                                 <<<<"new", k>>, <<"open", k>>, <<"create_stream", k>>,
                                   <<"consume", k>>, <<"release_stream", k>>,
                                   <<"destroy", k>>>>
                            [] o = "ok" ->
                                 <<<<"new", k>>, <<"open", k>>, <<"create_stream", k>>,
                                   <<"attach", k>>>>
                  OnStream(e) == e[1] \notin {"new", "c2pa_free", "consume"}
                  es == IF form = "context" THEN full ELSE SelectSeq(full, OnStream)
              IN  /\ form = "plain" => o # "new_fails"
                  /\ rd' = [Run(rd, es) EXCEPT
                              !.r[x] = IF o = "ok"
                                       THEN [exists |-> TRUE, h |-> k, file |-> k,
                                             adapter |-> k]
                                       ELSE @,
                              !.op = "ctor"]
    /\ UNCHANGED <<wvars, sig, vec>>

\* Reader::Reader(Reader&& other) into variable x: the two unique_ptr
\* members are moved (the objects they point to stay where they are),
\* other.c2pa_reader is set to nullptr.
PathReader_move(x, other) ==
    /\ ~rd.r[x].exists
    /\ rd.r[other].exists
    /\ rd' = [rd EXCEPT !.r[x] = rd.r[other],
                        !.r[other] = [RNone EXCEPT !.exists = TRUE],
                        !.op = "move"]
    /\ UNCHANGED <<wvars, sig, vec>>

\* Reader::operator=(Reader&& other) on x: c2pa_free of the own handle, then
\* owned_stream is move-assigned (the file stream x owned is destroyed), then
\* cpp_stream is move-assigned (the adapter x owned is released).
PathReader_move_assign(x, other) ==
    /\ x # other
    /\ rd.r[x].exists
    /\ rd.r[other].exists
    /\ rd' = [Run(rd, Ev("c2pa_free", rd.r[x].h)
                        \o Ev("destroy", rd.r[x].file)
                        \o Ev("release_stream", rd.r[x].adapter))
                EXCEPT !.r[x] = rd.r[other],
                       !.r[other] = [RNone EXCEPT !.exists = TRUE],
                       !.op = "move_assign"]
    /\ UNCHANGED <<wvars, sig, vec>>

\* A destructor that would destroy the members before releasing the reader.
PathReader_dtor_members_first(x) ==
    /\ rd.r[x].exists
    /\ rd' = [Run(rd, Ev("release_stream", rd.r[x].adapter)
                        \o Ev("destroy", rd.r[x].file)
                        \o Ev("c2pa_free", rd.r[x].h))
                EXCEPT !.r[x] = RNone, !.op = "dtor"]
    /\ UNCHANGED <<wvars, sig, vec>>

\* Reader::~Reader on x: c2pa_free(c2pa_reader), then the members in reverse
\* order of declaration: cpp_stream, then owned_stream.
PathReader_dtor(x) ==
    /\ rd.r[x].exists
    /\ rd' = [Run(rd, Ev("c2pa_free", rd.r[x].h)
                        \o Ev("release_stream", rd.r[x].adapter)
                        \o Ev("destroy", rd.r[x].file))
                EXCEPT !.r[x] = RNone, !.op = "dtor"]
    /\ UNCHANGED <<wvars, sig, vec>>

PathReaderNext ==
    \E x \in {"a", "b"} :
        \/ PathReader_ctor(x)
        \/ PathReader_dtor(x)
        \/ \E other \in {"a", "b"} :
            \/ PathReader_move(x, other)
            \/ PathReader_move_assign(x, other)
----------------------------------------------------------------------------
(* Signer (c2pa_signer.cpp, c2pa.hpp).                                     *)

\* Signer::Signer(C2paSigner*) given pointer p, with F the handle table at
\* the call: takes ownership of the pointer, no null check.
Signer_from_ptr(F, p) ==
    /\ Room
    /\ Effect(Constructed("Signer", FALSE, p), F, NULL)
    /\ last' = Rec("Signer(ptr)", FALSE, FALSE, FALSE, FALSE, p)

\* Signer::Signer(callback, alg, cert, tsa) and Signer::Signer(alg, cert, key,
\* tsa): the factory result is stored without a null check.
Signer_create ==
    /\ Room
    /\ \E ok \in BOOLEAN :
         LET p == c2pa_new(foreign, ok) IN
         /\ Effect(Constructed("Signer", FALSE, p), Alloc(foreign, p), NULL)
         /\ last' = Did(<<"new">>,
                         Rec("Signer()", FALSE, FALSE, FALSE, p = NULL, p))
    /\ UNCHANGED <<aliased>>
    /\ UNCHANGED svars

Signer_move(other) ==
    other.kind = "Signer" /\ MoveCtor(other) /\ UNCHANGED <<aliased>> /\ UNCHANGED svars

Signer_move_assign(a, other) ==
    a.kind = "Signer" /\ MoveAssign(a, other) /\ UNCHANGED <<aliased>> /\ UNCHANGED svars

Signer_dtor(a) ==
    a.kind = "Signer" /\ Destroy(a) /\ UNCHANGED <<aliased>> /\ UNCHANGED svars

\* Signer::reserve_size()
Signer_reserve_size(a) == UncheckedCall("Signer", "Signer::reserve_size", a, FALSE)

----------------------------------------------------------------------------
(* Builder (c2pa_builder.cpp, c2pa.hpp).                                   *)

\* A Builder(IContextProvider&) that would not test context.is_valid().
Builder_from_context_unchecked(c) ==
    /\ Room
    /\ c.kind = "Context"
    /\ \E ok \in BOOLEAN :
         LET b == c2pa_new(foreign, ok) IN
         /\ Effect(Constructed("Builder", b = NULL, b), Alloc(foreign, b), NULL)
         /\ last' = WithContext(c.ptr,
                      Did(<<"c_context", "new">>,
                          Rec("Builder(context)", b = NULL, c.ptr = NULL, FALSE,
                              b = NULL, b)))
    /\ UNCHANGED <<aliased>>
    /\ UNCHANGED svars

\* Builder::Builder(IContextProvider&)
Builder_from_context(c) ==
    /\ Room
    /\ c.kind = "Context"
    /\ \E ok \in (IF c.ptr = NULL THEN {FALSE} ELSE BOOLEAN) :
         LET b == c2pa_new(foreign, ok) IN
         /\ Effect(Constructed("Builder", b = NULL, b), Alloc(foreign, b), NULL)
         /\ last' = WithContext(c.ptr,
                      Did(IF c.ptr = NULL THEN << >> ELSE <<"c_context", "new">>,
                          Rec("Builder(context)", b = NULL, FALSE, FALSE,
                              c.ptr # NULL /\ b = NULL, b)))
    /\ UNCHANGED <<aliased>>
    /\ UNCHANGED svars

\* Builder::Builder(IContextProvider&, manifest_json): create from the
\* context, then the consuming c2pa_builder_with_definition.
Builder_from_context_json(c) ==
    /\ Room
    /\ c.kind = "Context"
    /\ IF c.ptr = NULL
       THEN /\ NoEffect
            /\ last' = Rec("Builder(context,json)", TRUE, FALSE, FALSE,
                           FALSE, NULL)
       ELSE \E o \in {"new_fails", "with_definition_fails", "ok"} :
              LET b  == c2pa_new(foreign, o # "new_fails")
                  F1 == Alloc(foreign, b)
                  cc == ConsumingCall(F1, b, o = "ok")
                  fld == FieldAfterConsuming(b, cc.updated)
              IN  IF b = NULL
                  THEN /\ NoEffect
                       /\ last' = WithContext(c.ptr,
                                    Did(<<"c_context", "new">>,
                                        Rec("Builder(context,json)", TRUE, FALSE,
                                            FALSE, TRUE, NULL)))
                  ELSE /\ Effect(Constructed("Builder", cc.updated = NULL, fld),
                                 cc.F, NULL)
                       /\ last' = WithContext(c.ptr,
                                    Did(<<"c_context", "new", "consume", "null_field">>
                                           \o (IF cc.updated = NULL
                                               THEN C2paException_default
                                               ELSE <<"assign_field">>),
                                        Rec("Builder(context,json)",
                                            cc.updated = NULL, FALSE, TRUE,
                                            cc.updated = NULL, fld)))
    /\ UNCHANGED <<aliased>>
    /\ UNCHANGED svars

\* Builder::Builder(manifest_json) (deprecated) and Builder::Builder(archive)
\* behind Builder::from_archive: local steps (open the file, create the
\* adapter) and one factory call.
Builder_create(op, locals) ==
    /\ Room
    /\ \E o \in locals \cup {"new_fails", "ok"} :
         LET b == c2pa_new(foreign, o = "ok") IN
         /\ Effect(Constructed("Builder", b = NULL, b), Alloc(foreign, b), NULL)
         /\ last' = LET adapters == IF locals = {} THEN 0 ELSE 1 IN
                    Did(IF o = "open_fails" THEN << >>
                        ELSE IF o = "adapter_fails" THEN <<"create_stream_null">>
                        ELSE Adapters("create_stream", adapters) \o <<"new">>
                               \o (IF b = NULL THEN C2paException_default
                                   ELSE << >>)
                               \o Adapters("release_stream", adapters),
                        Rec(op, b = NULL, FALSE, FALSE,
                            o # "open_fails" /\ b = NULL, b))
    /\ UNCHANGED <<aliased>>
    /\ UNCHANGED svars

Builder_from_json == Builder_create("Builder(json)", {})

Builder_from_archive == Builder_create("Builder::from_archive", {"open_fails", "adapter_fails"})

Builder_move(other) ==
    other.kind = "Builder" /\ MoveCtor(other) /\ UNCHANGED <<aliased>> /\ UNCHANGED svars

Builder_move_assign(a, other) ==
    a.kind = "Builder" /\ MoveAssign(a, other) /\ UNCHANGED <<aliased>> /\ UNCHANGED svars

Builder_dtor(a) ==
    a.kind = "Builder" /\ Destroy(a) /\ UNCHANGED <<aliased>> /\ UNCHANGED svars

\* Builder::set_no_embed(): the result of the foreign call is not looked at.
Builder_set_no_embed(a) == UncheckedCall("Builder", "Builder::set_no_embed", a, FALSE)

\* Builder::set_remote_url(url)
Builder_set_remote_url(a) == UncheckedCall("Builder", "Builder::set_remote_url", a, TRUE)

\* Builder::set_base_path(path)
Builder_set_base_path(a) == UncheckedCall("Builder", "Builder::set_base_path", a, TRUE)

\* Builder::add_action(json)
Builder_add_action(a) == UncheckedCall("Builder", "Builder::add_action", a, TRUE)

\* Builder::data_hashed_placeholder(reserve_size, format)
Builder_data_hashed_placeholder(a) ==
    UncheckedCall("Builder", "Builder::data_hashed_placeholder", a, TRUE)

\* Builder::add_resource(uri, stream | path)
Builder_add_resource(a) == LocalThenCall("Builder", "Builder::add_resource", a)

\* Builder::add_ingredient(json, format, stream | path)
Builder_add_ingredient(a) == LocalThenCall("Builder", "Builder::add_ingredient", a)

\* Builder::to_archive(stream | path)
Builder_to_archive(a) == LocalThenCall("Builder", "Builder::to_archive", a)

\* The signing operations as they would be if the first adapter were not
\* released when creating the second one fails.
SignCall_leaking(op, a, sg, locals, adapters, steps) ==
    /\ a.kind = "Builder"
    /\ sg.kind = "Signer"
    /\ LET anyNull == a.ptr = NULL \/ sg.ptr = NULL IN
       \E o \in locals \cup (IF anyNull THEN {"call_fails"}
                             ELSE {"call_fails", "ok"}) :
         last' = CASE o = "open_fails" ->
                        Did(SubSeq(steps, 1, 1),
                            Rec(op, TRUE, FALSE, FALSE, FALSE, a.ptr))
                   [] o = "mkdir_fails" ->
                        Raised("std::filesystem::filesystem_error",
                               Did(SubSeq(steps, 1, 2),
                                   Rec(op, TRUE, FALSE, FALSE, FALSE, a.ptr)))
                   [] o = "dest_fails" ->
                        Raised("std::runtime_error",
                               Did(steps, Rec(op, TRUE, FALSE, FALSE, FALSE, a.ptr)))
                   [] o = "adapter_fails" ->
                        Did(steps \o <<"create_stream_null">>,
                            Rec(op, TRUE, FALSE, FALSE, TRUE, a.ptr))
                   [] o = "adapter2_fails" ->
                        Did(steps \o <<"create_stream", "create_stream_null">>,
                            Rec(op, TRUE, FALSE, FALSE, TRUE, a.ptr))
                   [] OTHER ->
                        LET err == IF o = "ok" THEN << >> ELSE C2paException_default
                            rel == Adapters("release_stream", adapters)
                        IN  Did(steps \o Adapters("create_stream", adapters)
                                   \o <<"call">>
                                   \o (IF adapters = 1 THEN rel \o err
                                       ELSE err \o rel),
                                Rec(op, o # "ok", anyNull, FALSE, o # "ok", a.ptr))
    /\ NoEffect
    /\ UNCHANGED <<aliased>>
    /\ UNCHANGED svars

\* Builder::sign(...) and Builder::sign_data_hashed_embeddable(signer, ...):
\* local work, then one foreign call that is given the builder and
\* signer.c2pa_signer(), neither of them checked.  steps are the file steps
\* of a path overload, in the order it takes them (none for a stream
\* overload); the adapters are locals, created in turn and released in turn
\* when their scope ends: for sign, after the result was looked at; for the
\* one adapter of sign_data_hashed_embeddable, before.
SignCall(op, a, sg, locals, adapters, steps) ==
    /\ a.kind = "Builder"
    /\ sg.kind = "Signer"
    /\ LET anyNull == a.ptr = NULL \/ sg.ptr = NULL IN
       \E o \in locals \cup (IF anyNull THEN {"call_fails"}
                             ELSE {"call_fails", "ok"}) :
         last' = CASE o = "open_fails" ->
                        Did(SubSeq(steps, 1, 1),
                            Rec(op, TRUE, FALSE, FALSE, FALSE, a.ptr))
                   [] o = "mkdir_fails" ->
                        Raised("std::filesystem::filesystem_error",
                               Did(SubSeq(steps, 1, 2),
                                   Rec(op, TRUE, FALSE, FALSE, FALSE, a.ptr)))
                   [] o = "dest_fails" ->
                        Raised("std::runtime_error",
                               Did(steps, Rec(op, TRUE, FALSE, FALSE, FALSE, a.ptr)))
                   [] o = "adapter_fails" ->
                        Did(steps \o <<"create_stream_null">>,
                            Rec(op, TRUE, FALSE, FALSE, TRUE, a.ptr))
                   [] o = "adapter2_fails" ->
                        Did(steps \o <<"create_stream", "create_stream_null",
                                       "release_stream">>,
                            Rec(op, TRUE, FALSE, FALSE, TRUE, a.ptr))
                   [] OTHER ->
                        LET err == IF o = "ok" THEN << >> ELSE C2paException_default
                            rel == Adapters("release_stream", adapters)
                        IN  Did(steps \o Adapters("create_stream", adapters)
                                   \o <<"call">>
                                   \o (IF adapters = 1 THEN rel \o err
                                       ELSE err \o rel),
                                Rec(op, o # "ok", anyNull, FALSE, o # "ok", a.ptr))
    /\ NoEffect
    /\ UNCHANGED <<aliased>>
    /\ UNCHANGED svars

\* Builder::sign(source_path, dest_path, signer) as it would be if it opened
\* the destination before making sure its directory exists.
Builder_sign_dest_first(a, sg) ==
    \/ SignCall("Builder::sign", a, sg, {"adapter_fails", "adapter2_fails"}, 2, << >>)
    \/ \E absent \in BOOLEAN :
         SignCall("Builder::sign", a, sg,
                  {"open_fails", "dest_fails", "adapter_fails", "adapter2_fails"},
                  2,
                  <<"open_source", "open_dest">>
                     \o (IF absent THEN <<"create_directories">> ELSE << >>))

\* Builder::sign(format, source, dest, signer), and
\* Builder::sign(source_path, dest_path, signer): open the source, create the
\* destination's directory when std::filesystem::exists says it is absent,
\* open the destination, then the stream form.
Builder_sign(a, sg) ==
    \/ SignCall("Builder::sign", a, sg, {"adapter_fails", "adapter2_fails"}, 2, << >>)
    \/ \E absent \in BOOLEAN :
         SignCall("Builder::sign", a, sg,
                  {"open_fails", "dest_fails", "adapter_fails", "adapter2_fails"}
                     \cup (IF absent THEN {"mkdir_fails"} ELSE {}),
                  2,
                  <<"open_source">>
                     \o (IF absent THEN <<"create_directories">> ELSE << >>)
                     \o <<"open_dest">>)

\* Builder::sign_data_hashed_embeddable(signer, data_hash, format[, asset])
Builder_sign_data_hashed_embeddable(a, sg) ==
    \/ SignCall("Builder::sign_data_hashed_embeddable", a, sg,
                {"adapter_fails"}, 1, << >>)
    \/ SignCall("Builder::sign_data_hashed_embeddable", a, sg, {}, 0, << >>)

\* A consuming member call of Builder: the handle field goes to the foreign
\* call as it is, the field is then set from the result, a null result throws.
ConsumingMember(op, a, ok, adapters, message) ==
    /\ a.kind = "Builder"
    /\ LET cc == ConsumingCall(foreign, a.ptr, ok)
           fld == FieldAfterConsuming(a.ptr, cc.updated)
       IN  /\ Effect(Replace(objs, a, Obj("Builder", fld)), cc.F, NULL)
           /\ last' = Did(Adapters("create_stream", adapters)
                             \o <<"consume", "null_field">>
                             \o (IF cc.updated = NULL THEN message
                                 ELSE <<"assign_field">>)
                             \o Adapters("release_stream", adapters),
                          Rec(op, cc.updated = NULL, a.ptr = NULL, TRUE,
                              cc.updated = NULL, fld))
    /\ UNCHANGED <<aliased>>
    /\ UNCHANGED svars

\* Builder::with_definition(manifest_json)
Builder_with_definition(a) ==
    \E ok \in BOOLEAN :
       ConsumingMember("Builder::with_definition", a, ok, 0, << >>)

\* Builder::with_archive(archive): the adapter is created first; when that
\* fails the call throws before any foreign call on the builder.
Builder_with_archive(a) ==
    \/ \E ok \in BOOLEAN :
          ConsumingMember("Builder::with_archive", a, ok, 1,
                          C2paException_default)
    \/ /\ a.kind = "Builder"
       /\ last' = Did(<<"create_stream_null">>,
                      Rec("Builder::with_archive", TRUE, FALSE, FALSE, TRUE,
                          a.ptr))
       /\ NoEffect
       /\ UNCHANGED <<aliased>>
       /\ UNCHANGED svars

----------------------------------------------------------------------------
(* Free functions (c2pa.cpp).                                              *)

\* read_file(source_path, data_dir) (deprecated): one foreign call; on a null
\* result a default-constructed C2paException is built to look at the
\* message, and when the message is not "ManifestNotFound" a second one is
\* built and thrown.
read_file ==
    /\ \E o \in {"ok", "not_found", "fails"} :
         last' = Did(CASE o = "ok" -> <<"call">>
                       [] o = "not_found" -> <<"call">> \o C2paException_default
                       [] o = "fails" -> <<"call">> \o C2paException_default
                                            \o C2paException_default,
                     Rec("read_file", o = "fails", FALSE, FALSE, o # "ok", NULL))
    /\ NoEffect
    /\ UNCHANGED <<aliased>>
    /\ UNCHANGED svars
----------------------------------------------------------------------------
(* Raw-pointer constructors and accessors.                                 *)

\* Context(ptr) on a pointer that comes straight from the foreign factory.
Context_adopt ==
    /\ \E ok \in BOOLEAN :
         LET p == c2pa_new(foreign, ok) IN
         Context_from_ptr(Alloc(foreign, p), p)
    /\ UNCHANGED <<aliased>>
    /\ UNCHANGED svars

\* Signer(ptr) on a pointer that comes straight from the foreign factory.
Signer_adopt ==
    /\ \E ok \in BOOLEAN :
         LET p == c2pa_new(foreign, ok) IN
         Signer_from_ptr(Alloc(foreign, p), p)
    /\ UNCHANGED <<aliased>>
    /\ UNCHANGED svars

\* Context b(a.c_context()): the accessor of a live Context feeds Context(ptr).
Context_alias(a) ==
    /\ a.kind = "Context"
    /\ Context_from_ptr(foreign, a.ptr)
    /\ aliased' = (aliased \/ a.ptr # NULL)
    /\ UNCHANGED svars

\* Signer b(a.c2pa_signer()): the accessor of a live Signer feeds Signer(ptr).
Signer_alias(a) ==
    /\ a.kind = "Signer"
    /\ Signer_from_ptr(foreign, a.ptr)
    /\ aliased' = (aliased \/ a.ptr # NULL)
    /\ UNCHANGED svars

----------------------------------------------------------------------------
(* Specifications of the handle-wrapped resources.                         *)

\* The stream variables while no adapter is exercised.
NoStream == [data |-> << >>, g |-> 0, p |-> 0, eof |-> FALSE, fail |-> FALSE,
             bad |-> FALSE, file |-> FALSE, open |-> TRUE]

NoCall == [cb |-> "none", ctx |-> TRUE, buffer |-> TRUE, size |-> 0, off |-> 0,
           whence |-> "Start", hard |-> FALSE, ub |-> "none"]

\* The trampoline variables while no signing is in progress.
NoSign == [data |-> TRUE, signature |-> TRUE, max |-> 0, cb |-> "none",
           result |-> << >>, ret |-> 0, err |-> 0, out |-> << >>,
           escaped |-> FALSE, diag |-> "none", sign |-> "none"]

Init ==
    /\ objs = EmptyBag
    /\ foreign = [h \in Handles |-> "unalloc"]
    /\ violation = "none"
    /\ last = Rec("none", FALSE, FALSE, FALSE, FALSE, NULL)
    /\ aliased = FALSE
    /\ variant = "I"
    /\ strm = NoStream
    /\ outbuf = << >>
    /\ ret = 0
    /\ errno_ = 0
    /\ called = NoCall
    /\ rd = ReaderInit
    /\ sig = NoSign
    /\ vec = [op |-> "none", data |-> [ptr |-> NULL, bytes |-> << >>], size |-> 0,
              threw |-> FALSE, result |-> << >>, steps |-> << >>]

Next ==
    \/ Settings_default
    \/ Settings_from_string
    \/ Context_default
    \/ Context_adopt
    \/ Context_from_json
    \/ ContextBuilder_default
    \/ Reader_from_stream
    \/ Signer_create
    \/ Signer_adopt
    \/ Builder_from_json
    \/ Builder_from_archive
    \/ \E a \in BagToSet(objs) :
        \/ Settings_move(a)
        \/ Settings_dtor(a)
        \/ Context_from_settings(a)
        \/ Context_move(a)
        \/ Context_dtor(a)
        \/ ContextBuilder_move(a)
        \/ ContextBuilder_dtor(a)
        \/ ContextBuilder_create_context(a)
        \/ Reader_from_context_stream(a)
        \/ Reader_from_context_path(a)
        \/ Reader_move(a)
        \/ Reader_dtor(a)
        \/ Signer_move(a)
        \/ Signer_dtor(a)
        \/ Builder_from_context(a)
        \/ Builder_from_context_json(a)
        \/ Builder_move(a)
        \/ Builder_dtor(a)
        \/ Builder_with_definition(a)
        \/ Builder_with_archive(a)
    \/ \E a, b \in BagToSet(objs) :
        \/ Settings_move_assign(a, b)
        \/ Context_move_assign(a, b)
        \/ ContextBuilder_move_assign(a, b)
        \/ Reader_move_assign(a, b)
        \/ Signer_move_assign(a, b)
        \/ Builder_move_assign(a, b)

Spec == Init /\ [][Next]_vars

\* The operations that change no wrapper's handle field.
Calls ==
    \/ read_file
    \/ \E a \in BagToSet(objs) :
        \/ Settings_set(a)
        \/ Settings_update(a)
        \/ ContextBuilder_with_json(a)
        \/ ContextBuilder_with_json_settings_file(a)
        \/ Reader_json(a)
        \/ Reader_remote_url(a)
        \/ Reader_is_embedded(a)
        \/ Reader_get_resource(a)
        \/ Signer_reserve_size(a)
        \/ Builder_set_no_embed(a)
        \/ Builder_set_remote_url(a)
        \/ Builder_set_base_path(a)
        \/ Builder_add_action(a)
        \/ Builder_data_hashed_placeholder(a)
        \/ Builder_add_resource(a)
        \/ Builder_add_ingredient(a)
        \/ Builder_to_archive(a)
    \/ \E a, b \in BagToSet(objs) :
        \/ ContextBuilder_with_settings(a, b)
        \/ Builder_sign(a, b)
        \/ Builder_sign_data_hashed_embeddable(a, b)

\* Every public operation of the wrappers.
CallNext == Next \/ Calls

CallSpec == Init /\ [][CallNext]_vars

\* The operations of Next and the raw-pointer constructors fed by the
\* accessors of live wrappers.
RawNext ==
    \/ Next
    \/ \E a \in BagToSet(objs) : Context_alias(a)
    \/ \E a \in BagToSet(objs) : Signer_alias(a)

RawSpec == Init /\ [][RawNext]_vars


\* The operations on a Context and on the Readers and Builders constructed
\* from one: here every Reader and Builder was given a context.
ContextUseNext ==
    \/ Context_default
    \/ Signer_create
    \/ \E a \in BagToSet(objs) :
        \/ Context_move(a)
        \/ Context_dtor(a)
        \/ Reader_from_context_stream(a)
        \/ Reader_from_context_path(a)
        \/ Reader_move(a)
        \/ Reader_dtor(a)
        \/ Reader_json(a)
        \/ Reader_remote_url(a)
        \/ Reader_is_embedded(a)
        \/ Reader_get_resource(a)
        \/ Signer_dtor(a)
        \/ Builder_from_context(a)
        \/ Builder_from_context_json(a)
        \/ Builder_move(a)
        \/ Builder_dtor(a)
        \/ Builder_with_definition(a)
        \/ Builder_with_archive(a)
        \/ Builder_set_no_embed(a)
        \/ Builder_set_remote_url(a)
        \/ Builder_set_base_path(a)
        \/ Builder_add_action(a)
        \/ Builder_data_hashed_placeholder(a)
        \/ Builder_add_resource(a)
        \/ Builder_add_ingredient(a)
        \/ Builder_to_archive(a)
    \/ \E a, b \in BagToSet(objs) :
        \/ Context_move_assign(a, b)
        \/ Reader_move_assign(a, b)
        \/ Builder_move_assign(a, b)
        \/ Builder_sign(a, b)
        \/ Builder_sign_data_hashed_embeddable(a, b)

ContextUseSpec == Init /\ [][ContextUseNext]_vars

\* Readers constructed from a file path: construction, moves, destruction.
PathReaderSpec == Init /\ [][PathReaderNext]_vars
----------------------------------------------------------------------------
(* The wrapped std::istream / std::ostream / std::iostream.                *)
(*                                                                         *)
(* A stream is a record: data (the bytes of the underlying sequence), g    *)
(* and p (get and put position), the state flags eof, fail, bad, file      *)
(* (backed by a file: one shared position, a seek past the end succeeds,   *)
(* the file can be closed; otherwise backed by a string: two positions, a  *)
(* seek is confined to the sequence) and open.                             *)

\* StreamError::InvalidArgument and StreamError::IoError.
EINVAL == 22
EIO == 5

\* The seek modes a seeker can be called with; "Other" is any value that is
\* none of the three enumerators.
SeekModes == {"Start", "Current", "End", "Other"}

whence_to_seekdir(whence) ==
    CASE whence = "Start"   -> "beg"
      [] whence = "Current" -> "cur"
      [] whence = "End"     -> "end"
      [] OTHER              -> "beg"

\* std::ios state functions.
good(s) == ~s.eof /\ ~s.fail /\ ~s.bad
fail(s) == s.fail \/ s.bad
clear(s) == [s EXCEPT !.eof = FALSE, !.fail = FALSE, !.bad = FALSE]

\* Both positions of a file-backed stream move together.
SetGet(s, pos) == IF s.file THEN [s EXCEPT !.g = pos, !.p = pos] ELSE [s EXCEPT !.g = pos]
SetPut(s, pos) == IF s.file THEN [s EXCEPT !.g = pos, !.p = pos] ELSE [s EXCEPT !.p = pos]

\* rdbuf()->pubseekoff(off, dir, which) with cur the current position of the
\* area sought: the new position, or -1.  A closed file and a negative
\* position fail; a string buffer also refuses a position past its end.
seekoff(s, cur, off, dir) ==
    LET base == CASE dir = "beg" -> 0
                  [] dir = "cur" -> cur
                  [] dir = "end" -> Len(s.data)
        pos  == base + off
    IN  IF s.file
        THEN IF ~s.open \/ pos < 0 THEN -1 ELSE pos
        ELSE IF pos < 0 \/ pos > Len(s.data) THEN -1 ELSE pos

\* istream::seekg(off, dir): clears eofbit; does nothing more when fail();
\* failbit when the buffer refuses; badbit when the buffer throws (hard).
seekg(s, off, dir, hard) ==
    LET s0  == [s EXCEPT !.eof = FALSE]
        pos == seekoff(s0, s0.g, off, dir)
    IN  IF fail(s0) THEN s0
        ELSE IF hard THEN [s0 EXCEPT !.bad = TRUE]
        ELSE IF pos = -1 THEN [s0 EXCEPT !.fail = TRUE]
        ELSE SetGet(s0, pos)

\* ostream::seekp(off, dir)
seekp(s, off, dir, hard) ==
    LET pos == seekoff(s, s.p, off, dir)
    IN  IF fail(s) THEN s
        ELSE IF hard THEN [s EXCEPT !.bad = TRUE]
        ELSE IF pos = -1 THEN [s EXCEPT !.fail = TRUE]
        ELSE SetPut(s, pos)

\* istream::tellg() and ostream::tellp(): -1 when fail().
tellg(s) == IF fail(s) THEN -1 ELSE s.g
tellp(s) == IF fail(s) THEN -1 ELSE s.p

\* Bytes left between the get position and the end of the sequence.
Remaining(s) ==
    IF s.file /\ ~s.open THEN 0
    ELSE IF s.g < Len(s.data) THEN Len(s.data) - s.g ELSE 0

\* istream::read(buffer, n), n > 0: the stream afterwards, gcount() and the
\* bytes stored.  A stream that is not good() gets failbit and reads nothing;
\* a buffer that throws gives badbit; fewer than n bytes give eofbit and failbit.
read(s, n, hard) ==
    IF ~good(s) THEN [strm |-> [s EXCEPT !.fail = TRUE], gcount |-> 0, bytes |-> << >>]
    ELSE IF hard THEN [strm |-> [s EXCEPT !.bad = TRUE], gcount |-> 0, bytes |-> << >>]
    ELSE LET c  == Min(n, Remaining(s))
             s1 == SetGet(s, s.g + c)
         IN  [strm   |-> IF c < n THEN [s1 EXCEPT !.eof = TRUE, !.fail = TRUE] ELSE s1,
              gcount |-> c,
              bytes  |-> SubSeq(s.data, s.g + 1, s.g + c)]

\* The sequence after n bytes b were stored at position pos; a gap between
\* the old end and pos reads as zero bytes.
Store(data, pos, n, b) ==
    LET len == IF pos + n > Len(data) THEN pos + n ELSE Len(data)
    IN  [k \in 1..len |->
            IF k > pos /\ k <= pos + n THEN b
            ELSE IF k <= Len(data) THEN data[k] ELSE 0]

\* ostream::write(buffer, n) of n bytes b: a stream that is not good() gets
\* failbit and nothing is written; when the buffer takes another number of
\* bytes than n (n negative, a closed file, a buffer that throws) the stream
\* gets badbit.
write(s, n, b, hard) ==
    IF ~good(s) THEN [s EXCEPT !.fail = TRUE]
    ELSE IF n = 0 THEN s
    ELSE IF n < 0 \/ hard \/ (s.file /\ ~s.open) THEN [s EXCEPT !.bad = TRUE]
    ELSE SetPut([s EXCEPT !.data = Store(s.data, s.p, n, b)], s.p + n)

\* ostream::flush(): badbit when the buffer cannot be synchronised.
flush(s, hard) ==
    IF ~good(s) THEN [s EXCEPT !.fail = TRUE]
    ELSE IF hard THEN [s EXCEPT !.bad = TRUE]
    ELSE s

----------------------------------------------------------------------------
(* The stream callbacks (c2pa_internal.hpp, c2pa_streams.cpp).  ctx and    *)
(* buffer are TRUE for a valid pointer, FALSE for a null pointer.  Each    *)
(* gives the stream afterwards, the return value, the code stored in errno *)
(* (0: errno is not written) and the bytes stored in the caller's buffer.  *)

Result(s, r, bytes) == [strm |-> s, ret |-> r, err |-> 0, bytes |-> bytes]

\* stream_error_return(e): errno = e; return -1.
stream_error_return(s, e) == [strm |-> s, ret |-> -1, err |-> e, bytes |-> << >>]

\* An is_stream_usable that would test the pointer only.
is_stream_usable_pointer_only(ctx, s) == ctx

\* is_stream_usable(stream)
is_stream_usable(ctx, s) == ctx /\ ~s.bad

\* StreamSeekTraits<Stream>::seek for stream type v
StreamSeekTraits_seek(v, s, off, dir, hard) ==
    CASE v = "I"  -> seekg(s, off, dir, hard)
      [] v = "O"  -> seekp(s, off, dir, hard)
      [] v = "IO" -> seekp(seekg(s, off, dir, hard), off, dir, hard)

\* StreamSeekTraits<Stream>::tell for stream type v
StreamSeekTraits_tell(v, s) == IF v = "I" THEN tellg(s) ELSE tellp(s)

\* A stream_seeker that would seek without clearing the flags first.
stream_seeker_no_clear(v, ctx, s, off, whence, hard) ==
    IF ~is_stream_usable(ctx, s) THEN stream_error_return(s, EIO)
    ELSE LET s1  == StreamSeekTraits_seek(v, s, off, whence_to_seekdir(whence), hard)
             pos == StreamSeekTraits_tell(v, s1)
         IN  IF fail(s1) THEN stream_error_return(s1, EINVAL)
             ELSE IF s1.bad THEN stream_error_return(s1, EIO)
             ELSE IF pos < 0 THEN stream_error_return(s1, EIO)
             ELSE Result(s1, pos, << >>)

\* detail::stream_seeker<Stream>
stream_seeker(v, ctx, s, off, whence, hard) ==
    IF ~is_stream_usable(ctx, s) THEN stream_error_return(s, EIO)
    ELSE LET s1  == StreamSeekTraits_seek(v, clear(s), off, whence_to_seekdir(whence), hard)
             pos == StreamSeekTraits_tell(v, s1)
         IN  IF fail(s1) THEN stream_error_return(s1, EINVAL)
             ELSE IF s1.bad THEN stream_error_return(s1, EIO)
             ELSE IF pos < 0 THEN stream_error_return(s1, EIO)
             ELSE Result(s1, pos, << >>)

\* A reader that would return the size it was asked for instead of gcount().
stream_reader_size(ctx, buffer, s, size, hard) ==
    IF ~ctx \/ ~buffer THEN stream_error_return(s, EINVAL)
    ELSE IF size < 0 THEN stream_error_return(s, EINVAL)
    ELSE IF size = 0 THEN Result(s, 0, << >>)
    ELSE IF ~is_stream_usable(ctx, s) THEN stream_error_return(s, EIO)
    ELSE LET r == read(s, size, hard) IN
         IF fail(r.strm) /\ ~r.strm.eof THEN stream_error_return(r.strm, EINVAL)
         ELSE IF r.strm.bad THEN stream_error_return(r.strm, EIO)
         ELSE Result(r.strm, size, r.bytes)

\* detail::stream_reader<Stream>
stream_reader(ctx, buffer, s, size, hard) ==
    IF ~ctx \/ ~buffer THEN stream_error_return(s, EINVAL)
    ELSE IF size < 0 THEN stream_error_return(s, EINVAL)
    ELSE IF size = 0 THEN Result(s, 0, << >>)
    ELSE IF ~is_stream_usable(ctx, s) THEN stream_error_return(s, EIO)
    ELSE LET r == read(s, size, hard) IN
         IF fail(r.strm) /\ ~r.strm.eof THEN stream_error_return(r.strm, EINVAL)
         ELSE IF r.strm.bad THEN stream_error_return(r.strm, EIO)
         ELSE Result(r.strm, r.gcount, r.bytes)

\* detail::stream_op<Stream, Op>: s1 is the stream after op, result what op returned.
stream_op(ctx, s, s1, result) ==
    IF ~is_stream_usable(ctx, s) THEN stream_error_return(s, EIO)
    ELSE IF fail(s1) THEN stream_error_return(s1, EINVAL)
    ELSE IF s1.bad THEN stream_error_return(s1, EIO)
    ELSE Result(s1, result, << >>)

\* detail::stream_writer<Stream>: buffer and size go to write() unchecked; b
\* is the byte value the buffer holds.
stream_writer(ctx, s, size, b, hard) == stream_op(ctx, s, write(s, size, b, hard), size)

\* detail::stream_flusher<Stream>
stream_flusher(ctx, s, hard) == stream_op(ctx, s, flush(s, hard), 0)

\* A CppIStream::writer that would hand the call on to the stream, as the
\* writable adapters do.
CppIStream_writer_delegating(ctx, s, size, b, hard) ==
    stream_writer(ctx, s, size, b, hard)

\* CppIStream::writer, CppIStream::flusher, CppOStream::reader
CppIStream_writer(ctx, s, size, b, hard) == stream_error_return(s, EINVAL)

CppIStream_flusher(ctx, s, hard) == stream_error_return(s, EINVAL)

CppOStream_reader(ctx, buffer, s, size, hard) == stream_error_return(s, EINVAL)

\* The reader, writer, seeker and flusher of adapter class v.
reader(v, ctx, buffer, s, size, hard) ==
    IF v = "O" THEN CppOStream_reader(ctx, buffer, s, size, hard)
    ELSE stream_reader(ctx, buffer, s, size, hard)

writer(v, ctx, s, size, b, hard) ==
    IF v = "I" THEN CppIStream_writer(ctx, s, size, b, hard)
    ELSE stream_writer(ctx, s, size, b, hard)

seeker(v, ctx, s, off, whence, hard) == stream_seeker(v, ctx, s, off, whence, hard)

flusher(v, ctx, s, hard) ==
    IF v = "I" THEN CppIStream_flusher(ctx, s, hard)
    ELSE stream_flusher(ctx, s, hard)

----------------------------------------------------------------------------
(* Specification of the stream adapters: the foreign layer calls the four  *)
(* callbacks of one adapter in any order with any arguments, one call at a *)
(* time, and takes each result before it makes the next call; the owner of *)
(* a file stream may close it between two calls.                           *)

\* Size arguments, and offset arguments.
Sizes == -1..MaxSize
Offsets == {-1, 0, 1}

\* Whether the stream's buffer fails hard during a callback; it can only
\* when the callback gets past is_stream_usable.
Hard(ctx) == IF is_stream_usable(ctx, strm) THEN BOOLEAN ELSE {FALSE}

\* The first len bytes of the stream's initial content.
Content(len) == [k \in 1..len |-> 1 + (k % 2)]

\* The model keeps the sequence and both positions within MaxLen.
InBounds(s) == Len(s.data) <= MaxLen /\ s.g <= MaxLen /\ s.p <= MaxLen

\* The record of a callback; hard: the stream's buffer failed hard while the
\* callback ran (it does so only when the callback gets as far as using it).
Call(cb, ctx, buffer, size, off, whence, hard, ub) ==
    [cb |-> cb, ctx |-> ctx, buffer |-> buffer, size |-> size, off |-> off,
     whence |-> whence, hard |-> hard /\ strm' # strm, ub |-> ub]

\* No callback is running and the last result has been taken.
Idle == called.cb = "none"

\* What a callback that returned res leaves behind.
Returned(res) ==
    /\ Idle
    /\ InBounds(res.strm)
    /\ strm' = res.strm
    /\ ret' = res.ret
    /\ errno_' = res.err
    /\ outbuf' = res.bytes

StreamInit ==
    /\ objs = EmptyBag
    /\ foreign = [h \in Handles |-> "unalloc"]
    /\ violation = "none"
    /\ last = Rec("none", FALSE, FALSE, FALSE, FALSE, NULL)
    /\ aliased = FALSE
    /\ variant \in {"I", "O", "IO"}
    /\ \E len \in 0..MaxLen, f \in BOOLEAN :
         strm = [NoStream EXCEPT !.data = Content(len), !.file = f]
    /\ outbuf = << >>
    /\ ret = 0
    /\ errno_ = 0
    /\ called = NoCall
    /\ rd = ReaderInit
    /\ sig = NoSign
    /\ vec = [op |-> "none", data |-> [ptr |-> NULL, bytes |-> << >>], size |-> 0,
              threw |-> FALSE, result |-> << >>, steps |-> << >>]

\* reader(context, buffer, size)
ReadCallback ==
    /\ \E ctx, buffer \in BOOLEAN, size \in Sizes : \E hard \in Hard(ctx) :
         /\ Returned(reader(variant, ctx, buffer, strm, size, hard))
         /\ called' = Call("reader", ctx, buffer, size, 0, "Start", hard, "none")
    /\ UNCHANGED variant
    /\ UNCHANGED hvars

\* writer(context, buffer, size).  With a null buffer and a positive size
\* ostream::write reads through the null pointer: undefined behaviour, which
\* either ends the process or stores bytes of no particular value.
WriteCallback ==
    /\ \E ctx, buffer \in BOOLEAN, size \in Sizes : \E hard \in Hard(ctx) :
         LET ub == /\ variant # "I"
                   /\ is_stream_usable(ctx, strm)
                   /\ good(strm)
                   /\ ~buffer
                   /\ size > 0
         IN  \E how \in (IF ub THEN {"crash", "garbage"} ELSE {"none"}) :
               /\ IF how = "crash"
                  THEN /\ Idle
                       /\ UNCHANGED strm
                       /\ ret' = 0
                       /\ errno_' = 0
                       /\ outbuf' = << >>
                  ELSE Returned(writer(variant, ctx, strm, size,
                                       IF buffer THEN 3 ELSE 0, hard))
               /\ called' = Call("writer", ctx, buffer, size, 0, "Start", hard, how)
    /\ UNCHANGED variant
    /\ UNCHANGED hvars

\* seeker(context, offset, whence)
SeekCallback ==
    /\ \E ctx \in BOOLEAN, off \in Offsets, whence \in SeekModes : \E hard \in Hard(ctx) :
         /\ Returned(seeker(variant, ctx, strm, off, whence, hard))
         /\ called' = Call("seeker", ctx, TRUE, 0, off, whence, hard, "none")
    /\ UNCHANGED variant
    /\ UNCHANGED hvars

\* flusher(context)
FlushCallback ==
    /\ \E ctx \in BOOLEAN : \E hard \in Hard(ctx) :
         /\ Returned(flusher(variant, ctx, strm, hard))
         /\ called' = Call("flusher", ctx, TRUE, 0, 0, "Start", hard, "none")
    /\ UNCHANGED variant
    /\ UNCHANGED hvars

\* The foreign layer takes the result of the callback that returned.  After
\* undefined behaviour that ended the process there is no next step.
TakeResult ==
    /\ ~Idle
    /\ called.ub # "crash"
    /\ called' = NoCall
    /\ ret' = 0
    /\ errno_' = 0
    /\ outbuf' = << >>
    /\ UNCHANGED <<variant, strm>>
    /\ UNCHANGED hvars

\* The owner of a file stream closes it behind the adapter's back.
Close ==
    /\ Idle
    /\ strm.file
    /\ strm.open
    /\ strm' = [strm EXCEPT !.open = FALSE]
    /\ UNCHANGED <<variant, ret, errno_, outbuf, called>>
    /\ UNCHANGED hvars

StreamNext ==
    \/ ReadCallback
    \/ WriteCallback
    \/ SeekCallback
    \/ FlushCallback
    \/ TakeResult
    \/ Close

StreamSpec == StreamInit /\ [][StreamNext]_vars

----------------------------------------------------------------------------
(* The byte vector of a foreign (pointer, length) result (c2pa_internal).  *)

\* A to_byte_vector that would not release the buffer of a failed call.
to_byte_vector_keeping(data, size) ==
    IF size < 0 \/ data.ptr = NULL
    THEN [threw |-> TRUE, result |-> << >>, steps |-> C2paException_default]
    ELSE [threw |-> FALSE, result |-> SubSeq(data.bytes, 1, size),
          steps |-> <<"copy", "c2pa_free">>]

\* detail::to_byte_vector(data, size): data is the pointer the foreign call
\* stored (NULL or not) with the bytes of the buffer it points to.  The
\* result: whether C2paException() was thrown, the vector returned and the
\* steps in their order: "copy" reads the buffer into the vector,
\* "c2pa_free" is the call c2pa_free(data), which does nothing for nullptr.
to_byte_vector(data, size) ==
    IF size < 0 \/ data.ptr = NULL
    THEN [threw |-> TRUE, result |-> << >>,
          steps |-> <<"c2pa_free">> \o C2paException_default]
    ELSE [threw |-> FALSE, result |-> SubSeq(data.bytes, 1, size),
          steps |-> <<"copy", "c2pa_free">>]

\* The tail of Builder::sign, Builder::data_hashed_placeholder,
\* Builder::sign_data_hashed_embeddable and Builder::format_embeddable: the
\* foreign call has stored a pointer and returned a length, and the member
\* returns detail::to_byte_vector of the two.  A failed call may have
\* stored a buffer or left the pointer null; a buffer is at least as long as
\* the length returned with it.
Builder_byte_vector ==
    \E op \in {"sign", "data_hashed_placeholder", "sign_data_hashed_embeddable",
               "format_embeddable"},
       ptr \in {NULL, 1}, n \in 0..MaxLen, size \in -1..MaxLen :
      \E bytes \in [1..n -> {0, 255}] :
        LET data == [ptr |-> ptr, bytes |-> bytes]
            v == to_byte_vector(data, size) IN
        /\ ptr = NULL => n = 0
        /\ ptr # NULL => size <= n
        /\ vec' = [op |-> op, data |-> data, size |-> size, threw |-> v.threw,
                   result |-> v.result, steps |-> v.steps]
        /\ UNCHANGED <<wvars, rd, sig>>

ByteVectorSpec == Init /\ [][Builder_byte_vector]_vars
----------------------------------------------------------------------------
(* The signer trampoline (c2pa_signer.cpp) under Builder::sign.            *)

ENOBUFS == 105

\* A trampoline that would copy the callback's result whatever its length.
signer_passthrough_unbounded(data, signature, sig_max_len, cb, result) ==
    IF ~data \/ ~signature
    THEN [ret |-> -1, err |-> EINVAL, out |-> << >>, cb |-> "none", escaped |-> FALSE, diag |-> "none"]
    ELSE IF cb \in {"std::exception", "other"}
    THEN [ret |-> -1, err |-> 0, out |-> << >>, cb |-> cb, escaped |-> FALSE, diag |-> "none"]
    ELSE [ret |-> Len(result), err |-> 0, out |-> result, cb |-> cb,
          escaped |-> FALSE, diag |-> "none"]

\* A trampoline that would catch std::exception only.
signer_passthrough_std_only(data, signature, sig_max_len, cb, result) ==
    IF ~data \/ ~signature
    THEN [ret |-> -1, err |-> EINVAL, out |-> << >>, cb |-> "none", escaped |-> FALSE, diag |-> "none"]
    ELSE IF cb = "std::exception"
    THEN [ret |-> -1, err |-> 0, out |-> << >>, cb |-> cb, escaped |-> FALSE, diag |-> "none"]
    ELSE IF cb = "other"
    THEN [ret |-> 0, err |-> 0, out |-> << >>, cb |-> cb, escaped |-> TRUE, diag |-> "none"]
    ELSE IF Len(result) > sig_max_len
    THEN [ret |-> -1, err |-> ENOBUFS, out |-> << >>, cb |-> cb, escaped |-> FALSE, diag |-> "none"]
    ELSE [ret |-> Len(result), err |-> 0, out |-> result, cb |-> cb,
          escaped |-> FALSE, diag |-> "none"]

\* signer_passthrough(context, data, len, signature, sig_max_len): data and
\* signature say whether the pointers are non-null; cb is what the user
\* callback does when it is invoked ("returns" result, throws a
\* "std::exception", throws something "other").  The result: the return
\* value, the code stored in errno (0: none), the bytes written to the
\* output buffer, what the callback did ("none": it was not invoked),
\* whether an exception left the trampoline, and diag: what the trampoline
\* kept of a caught exception where the caller of Builder::sign can read it
\* ("none": the catch blocks discard the exception and do not set errno).
signer_passthrough(data, signature, sig_max_len, cb, result) ==
    IF ~data \/ ~signature
    THEN [ret |-> -1, err |-> EINVAL, out |-> << >>, cb |-> "none", escaped |-> FALSE, diag |-> "none"]
    ELSE IF cb \in {"std::exception", "other"}
    THEN [ret |-> -1, err |-> 0, out |-> << >>, cb |-> cb, escaped |-> FALSE, diag |-> "none"]
    ELSE IF Len(result) > sig_max_len
    THEN [ret |-> -1, err |-> ENOBUFS, out |-> << >>, cb |-> cb, escaped |-> FALSE, diag |-> "none"]
    ELSE [ret |-> Len(result), err |-> 0, out |-> result, cb |-> cb,
          escaped |-> FALSE, diag |-> "none"]

\* Builder::sign with a Signer built from a callback: the foreign signing
\* call invokes the trampoline once; it fails when the trampoline returns
\* -1 and may fail for other reasons; detail::to_byte_vector throws
\* C2paException() on a failed call.  An exception that left the trampoline
\* would cross the foreign frames, which is undefined.
Builder_sign_callback ==
    \E data, signature \in BOOLEAN, sig_max_len \in 0..MaxSig,
       cb \in {"returns", "std::exception", "other"},
       n \in 0..(MaxSig + 1), ok \in BOOLEAN :
      \E result \in [1..n -> {0, 255}] :
        LET t == signer_passthrough(data, signature, sig_max_len, cb, result) IN
        /\ cb # "returns" => n = 0
        /\ sig' = [data |-> data, signature |-> signature, max |-> sig_max_len,
                   cb |-> t.cb, result |-> IF t.cb = "returns" THEN result ELSE << >>,
                   ret |-> t.ret, err |-> t.err, out |-> t.out,
                   escaped |-> t.escaped, diag |-> t.diag,
                   sign |-> IF t.escaped THEN "undefined"
                            ELSE IF t.ret < 0 \/ ~ok THEN "C2paException()"
                            ELSE "returned"]
        /\ UNCHANGED <<wvars, rd, vec>>

SignerSpec == Init /\ [][Builder_sign_callback]_vars
----------------------------------------------------------------------------
(* Claims on contexts, null handles and exceptions.                        *)

\* The constructors of Reader and Builder that take a context provider.
ContextTaking ==
    {"Reader(context,format,stream)", "Reader(context,path)",
     "Builder(context)", "Builder(context,json)"}

C14_InvalidContextRaises ==
    [][(/\ last'.op \in ContextTaking
        /\ \A c \in Objects("Context") : c.ptr = NULL)
       => /\ last'.exc = "C2paException(message)"
          /\ last'.calls = << >>
          /\ last'.ctx = NULL
          /\ foreign' = foreign
          /\ objs' = objs]_vars

\* A context-taking constructor threw, and the only Context is moved-from.
C14_ThrewOnInvalidContext ==
    /\ last.op \in ContextTaking
    /\ last.threw
    /\ Objects("Context") # {}
    /\ \A c \in Objects("Context") : c.ptr = NULL

\* C15: Settings::set and Settings::update on a null handle, the four
\* ContextBuilder operations on a null handle, and with_settings and
\* Context(settings) given an invalid Settings, raise C2paException before
\* any foreign call (here: the operation is taken while every Settings,
\* respectively every ContextBuilder, that exists holds a null handle).
C15_NullHandleRaisesFirst ==
    [][LET op == last'.op
           noSettings == \A s \in Objects("Settings") : s.ptr = NULL
           noBuilder == \A b \in Objects("ContextBuilder") : b.ptr = NULL
       IN  (\/ /\ op \in {"Settings::set", "Settings::update",
                          "Context(settings)", "with_settings"}
               /\ noSettings
            \/ /\ op \in {"with_settings", "with_json",
                          "with_json_settings_file", "create_context"}
               /\ noBuilder)
           => /\ last'.exc = "C2paException(message)"
              /\ last'.calls = << >>
              /\ foreign' = foreign
              /\ objs' = objs]_vars

\* create_context threw on a ContextBuilder whose handle is null.
C15_CreateContextOnNull ==
    /\ last.op = "create_context"
    /\ last.threw
    /\ last.calls = << >>
    /\ Objects("ContextBuilder") # {}
    /\ \A b \in Objects("ContextBuilder") : b.ptr = NULL

\* C16: a Signer constructor whose foreign factory returned null raises, so
\* a constructor that returned left a non-null handle in the new Signer.
C16_SignerFactoryNullRaises ==
    last.op = "Signer()" =>
        /\ last.fnull => last.threw
        /\ ~last.threw => last.field # NULL

\* A Signer constructor returned although the factory gave it null: the new
\* Signer holds a null handle.
C16_NullSignerConstructed ==
    /\ last.op = "Signer()"
    /\ last.fnull
    /\ ~last.threw
    /\ \E s \in Objects("Signer") : s.ptr = NULL

\* C19: whenever a public operation fails, the exception that reaches the
\* caller is a C2paException (built from the last foreign error or from an
\* explicit message).
C19_OneExceptionType ==
    last.threw => last.exc \in {"C2paException()", "C2paException(message)"}

\* Builder::sign(source_path, dest_path, signer) failed because the
\* destination could not be opened, and threw std::runtime_error.
C19_SignThrewRuntimeError ==
    /\ last.op = "Builder::sign"
    /\ last.threw
    /\ last.exc = "std::runtime_error"

\* C20: an operation that fails because a foreign call returned its failure
\* sentinel throws the C2paException whose message was read from the
\* last-error accessor, which is read once and whose buffer is released once.
C20_SentinelGivesLastError ==
    (last.threw /\ last.fnull) =>
        /\ last.exc = "C2paException()"
        /\ Times(last.calls, "c2pa_error") = 1
        /\ Times(last.calls, "free_message") = 1

\* Builder::with_definition failed on a live builder (the consuming call
\* returned null) and threw without reading the last-error accessor.
C20_WithDefinitionOwnMessage ==
    /\ last.op = "Builder::with_definition"
    /\ last.threw
    /\ last.fnull
    /\ ~last.nullArg
    /\ last.exc = "C2paException(message)"
    /\ Times(last.calls, "c2pa_error") = 0

\* C11: whenever a Reader destroys a file stream it owns, the adapter that
\* wraps this file stream has been released before.
C11_AdapterReleasedFirst == ~rd.early

\* A move assignment onto a Reader that owned a file stream destroyed the
\* file stream while the adapter wrapping it was not yet released.
C11_FileDestroyedUnderAdapter ==
    /\ rd.op = "move_assign"
    /\ rd.early
    /\ \E k \in 1..MaxIds : rd.file[k] = "destroyed" /\ rd.adapter[k] = "released"

\* C12: while the foreign reader handle of a Reader constructed from a path
\* is live, the adapter (StreamHandle) attached to it is not released and
\* the file stream the adapter points to is not destroyed, at the end of and
\* at every point inside construction, move construction, move assignment
\* and destruction; a live Reader's members name the objects its handle is
\* attached to (nothing was relocated).
C12_StreamOutlivesHandle ==
    /\ ~rd.dangling
    /\ \A k \in 1..MaxIds :
         rd.handle[k] = "live" => rd.adapter[k] = "live" /\ rd.file[k] = "open"
    /\ \A x \in {"a", "b"} :
         rd.r[x].h # NULL =>
            /\ rd.handle[rd.r[x].h] = "live"
            /\ rd.r[x].adapter = rd.r[x].h
            /\ rd.r[x].file = rd.r[x].h

\* A Reader with a live handle was move-assigned onto another Reader that
\* had been constructed from a path, whose handle, adapter and file are gone.
C12_LiveAfterMoveAssign ==
    /\ rd.op = "move_assign"
    /\ \E x \in {"a", "b"} : rd.r[x].h # NULL /\ rd.handle[rd.r[x].h] = "live"
    /\ \E k \in 1..MaxIds :
         rd.handle[k] = "gone" /\ rd.file[k] = "destroyed" /\ rd.adapter[k] = "released"
----------------------------------------------------------------------------
(* Claims on the signer trampoline.                                        *)

\* C17: with a null input or output pointer the trampoline returns -1 with
\* EINVAL and does not invoke the callback; when the callback returns more
\* than sig_max_len bytes it returns -1 with ENOBUFS and writes nothing;
\* when the callback returns at most sig_max_len bytes it writes exactly
\* these bytes and returns their number; it never writes more than
\* sig_max_len bytes.
C17_TrampolineResult ==
    sig.sign # "none" =>
        /\ (~sig.data \/ ~sig.signature) =>
              /\ sig.ret = -1 /\ sig.err = EINVAL
              /\ sig.cb = "none" /\ sig.out = << >>
        /\ (sig.cb = "returns" /\ Len(sig.result) > sig.max) =>
              sig.ret = -1 /\ sig.err = ENOBUFS /\ sig.out = << >>
        /\ (sig.cb = "returns" /\ Len(sig.result) <= sig.max) =>
              sig.ret = Len(sig.result) /\ sig.out = sig.result
        /\ Len(sig.out) <= sig.max

\* The callback returned one byte more than the declared maximum.
C17_ResultTooLong ==
    /\ sig.cb = "returns"
    /\ Len(sig.result) = sig.max + 1
    /\ sig.ret = -1
    /\ sig.out = << >>

\* C18: when the callback throws, a std::exception or anything else, the
\* trampoline returns -1, no exception leaves it, and Builder::sign throws
\* the wrapper's C2paException; no exception leaves the trampoline in any
\* other case either.
C18_ExceptionsStopAtTrampoline ==
    /\ ~sig.escaped
    /\ sig.cb \in {"std::exception", "other"} =>
          sig.ret = -1 /\ sig.sign = "C2paException()"

\* The callback threw something that is not a std::exception and
\* Builder::sign raised C2paException.
C18_ForeignTypeThrown ==
    /\ sig.cb = "other"
    /\ sig.ret = -1
    /\ sig.sign = "C2paException()"
----------------------------------------------------------------------------
(* Claims on construction from a path, Builder calls and settings.         *)

\* C21: a Reader(context, path) construction that fails because the file
\* cannot be opened has made no foreign call: no reader handle was created
\* (and so none had to be released).
C21_OpenFailsBeforeForeign ==
    (last.op = "Reader(context,path)" /\ last.exc = "std::system_error") =>
        /\ Times(last.calls, "new") = 0
        /\ Times(last.calls, "c2pa_free") = 0

\* The file could not be opened; by then the reader had been created from
\* the context, and it was released again before the throw.
C21_ReaderCreatedThenFreed ==
    /\ last.op = "Reader(context,path)"
    /\ last.exc = "std::system_error"
    /\ last.calls = <<"c_context", "new", "c2pa_free">>

\* C22: set_remote_url, set_base_path, add_resource, add_ingredient,
\* add_action, to_archive and sign of Builder raise when a foreign call they
\* made reported failure, and whether they return or raise, no wrapper's
\* handle field and no foreign handle has changed.
C22_NonConsumingKeepsHandle ==
    [][last'.op \in {"Builder::set_remote_url", "Builder::set_base_path",
                     "Builder::add_resource", "Builder::add_ingredient",
                     "Builder::add_action", "Builder::to_archive",
                     "Builder::sign"}
       => /\ last'.fnull => last'.threw
          /\ last'.threw => last'.exc # "none"
          /\ objs' = objs
          /\ foreign' = foreign
          /\ \E b \in Objects("Builder") : b.ptr = last'.field]_vars

\* add_resource raised on a foreign failure; the Builder still holds its
\* live handle.
C22_AddResourceFailed ==
    /\ last.op = "Builder::add_resource"
    /\ last.threw
    /\ Times(last.calls, "call") = 1
    /\ \E b \in Objects("Builder") :
         b.ptr = last.field /\ b.ptr # NULL /\ foreign[b.ptr] = "live"

\* C24: Context(settings) and ContextBuilder::with_settings, whether they
\* succeed or fail, leave every Settings object in place with the handle it
\* held, in the state that handle was in; the Context a successful
\* Context(settings) constructs holds a handle of its own, not the one of a
\* Settings object, so a later call on the Settings is not a call on it.
C24_SettingsArgumentKept ==
    [][last'.op \in {"Context(settings)", "with_settings"}
       => /\ \A s \in Objects("Settings") :
               /\ CopiesIn(s, objs') >= CopiesIn(s, objs)
               /\ s.ptr # NULL => foreign'[s.ptr] = foreign[s.ptr]
          /\ (last'.op = "Context(settings)" /\ ~last'.threw)
               => /\ last'.field # NULL
                  /\ \A s \in Objects("Settings") : s.ptr # last'.field]_vars

C24_SetSettingsFailedSettingsLive ==
    /\ last.op = "Context(settings)"
    /\ last.threw
    /\ Times(last.calls, "c2pa_free") = 1
    /\ \E s \in Objects("Settings") : s.ptr # NULL /\ foreign[s.ptr] = "live"

\* The number of Context objects of bag B, counted with their copies, that
\* satisfy P.
C25_Contexts(B, P(_)) ==
    BagCardinality([o \in {x \in BagToSet(B) : x.kind = "Context" /\ P(x)} |-> B[o]])

C25_Any(c) == TRUE
C25_Valid(c) == Context_is_valid(c)
C25_NonNull(c) == Context_c_context(c) # NULL

C27_FileSteps == {"open_source", "create_directories", "open_dest"}

C27_ForeignCalls ==
    {"new", "call", "consume", "c2pa_free", "c2pa_error", "free_message",
     "create_stream", "create_stream_null", "release_stream"}

\* C27: Builder::sign(source_path, dest_path, signer) opens the source first,
\* creates the destination's directory (when absent) before it opens the
\* destination, and makes its foreign calls only after the destination was
\* opened; when the source or the destination cannot be opened it raises a
\* local exception and has made no foreign call; when the directory was
\* created and the call returned, the destination was opened after that and
\* the foreign signing call was made once and succeeded.
C27_SignPathOrder ==
    LET c == last.calls
        At(e) == {k \in 1..Len(c) : c[k] = e}
    IN  (last.op = "Builder::sign" /\ At("open_source") # {}) =>
          /\ c[1] = "open_source"
          /\ \A i \in At("create_directories"), j \in At("open_dest") : i < j
          /\ \A j \in 1..Len(c) :
               c[j] \in C27_ForeignCalls =>
                  /\ At("open_dest") # {}
                  /\ \A i \in 1..Len(c) : c[i] \in C27_FileSteps => i < j
          /\ (last.threw /\ c[Len(c)] \in {"open_source", "open_dest"}) =>
                /\ last.exc \in {"C2paException(message)", "std::runtime_error"}
                /\ ~last.fnull
                /\ \A j \in 1..Len(c) : c[j] \notin C27_ForeignCalls
          /\ (~last.threw /\ At("create_directories") # {}) =>
                /\ At("open_dest") # {}
                /\ Times(c, "call") = 1
                /\ ~last.fnull

C27_SignedIntoNewDirectory ==
    /\ last.op = "Builder::sign"
    /\ ~last.threw
    /\ last.calls = <<"open_source", "create_directories", "open_dest",
                      "create_stream", "create_stream", "call",
                      "release_stream", "release_stream">>

\* The operations that create stream adapters for the length of one call.
C28_AdapterOps ==
    {"Builder::sign", "Builder::add_resource", "Builder::add_ingredient",
     "Builder::to_archive", "Builder::with_archive", "Builder::from_archive",
     "Builder::sign_data_hashed_embeddable", "Reader::get_resource"}

\* C28: when one of these operations has returned or thrown, every stream
\* handle its factory calls returned has been released once: there are as
\* many releases as factory calls that returned a handle, and never more
\* releases than such calls so far; a factory call that returned null is the
\* operation's last foreign call but for the releases of the handles created
\* before it, makes the operation throw the exception the adapter's
\* constructor raises, and is matched by no release.
C28_StreamHandlesReleasedOnce ==
    LET c == last.calls
        Upto(k, e) == Cardinality({i \in 1..k : c[i] = e})
    IN  last.op \in C28_AdapterOps =>
          /\ Times(c, "release_stream") = Times(c, "create_stream")
          /\ \A k \in 1..Len(c) :
               Upto(k, "release_stream") <= Upto(k, "create_stream")
          /\ \A k \in 1..Len(c) :
               c[k] = "create_stream_null" =>
                  /\ last.threw
                  /\ last.exc = "C2paException(message)"
                  /\ \A j \in (k + 1)..Len(c) : c[j] = "release_stream"

C28_SecondAdapterFailed ==
    /\ last.op = "Builder::sign"
    /\ last.threw
    /\ last.calls = <<"create_stream", "create_stream_null", "release_stream">>

----------------------------------------------------------------------------
(* Properties of the handle-wrapped resources.                             *)

\* C1: over construction, moves, consuming calls and destruction, no handle
\* is passed to c2pa_free a second time, and none after a consuming call
\* took it: no release ever finds a handle that is not live.
C1_ReleasedAtMostOnce == violation = "none"

\* C2: once create_context has issued the build call, the builder's handle
\* field is null, whether the call succeeded or failed.
C2_BuilderNullAfterBuild ==
    (last.op = "create_context" /\ last.issued) => last.field = NULL

\* The consuming call sites of Builder and Reader.
ConsumingSites ==
    {"Builder(context,json)", "Builder::with_definition", "Builder::with_archive",
     "Reader(context,format,stream)", "Reader(context,path)"}

\* C3: when the consuming call of a Builder or Reader site returns null, the
\* site throws with the handle field null; and no Builder or Reader ever
\* holds a handle that is not live, so destroying one releases nothing a
\* second time.
C3_NullAtThrow ==
    /\ (last.op \in ConsumingSites /\ last.issued /\ last.fnull)
          => (last.threw /\ last.field = NULL)
    /\ \A o \in Objects("Builder") \cup Objects("Reader") :
          o.ptr # NULL => foreign[o.ptr] = "live"

\* A Builder whose with_definition call failed on a valid handle.
C3_FailedWithDefinition ==
    /\ last.op = "Builder::with_definition"
    /\ last.issued /\ last.fnull /\ last.threw /\ ~last.nullArg
    /\ Obj("Builder", NULL) \in BagToSet(objs)

\* The operations of Settings, ContextBuilder, Reader and Builder that work
\* on the object's own handle alone.
OwnHandleOps ==
    {"Settings::set", "Settings::update", "with_json", "with_json_settings_file",
     "Reader::json", "Reader::remote_url", "Reader::is_embedded",
     "Reader::get_resource", "Builder::set_no_embed", "Builder::set_remote_url",
     "Builder::set_base_path", "Builder::add_action",
     "Builder::data_hashed_placeholder", "Builder::add_resource",
     "Builder::add_ingredient", "Builder::to_archive"}

\* The operations that replace the object's own handle.
ReplacingOps == {"create_context", "Builder::with_definition", "Builder::with_archive"}

\* C4: an operation invoked on a wrapper whose handle is null raises, and
\* no operation passes a null handle of its own to a foreign function.
C4_NullHandleRaises ==
    /\ (last.op \in OwnHandleOps /\ last.field = NULL) => last.threw
    /\ last.op \in OwnHandleOps \cup ReplacingOps => ~last.nullArg

\* No two wrappers hold the same non-null handle.
NoSharing ==
    \A o \in BagToSet(objs) :
        o.ptr # NULL =>
            /\ CopiesIn(o, objs) = 1
            /\ \A o2 \in BagToSet(objs) : o2 # o => o2.ptr # o.ptr

----------------------------------------------------------------------------
(* Claims on the order of steps at consuming call sites.                   *)

\* C29: at every consuming call site the handle field is set to null before
\* the consuming call is made, and the result is assigned to it after the
\* call: every consuming call in the trace of such an operation has a
\* "null_field" before it and every "assign_field" after it.
C29_NullBeforeConsuming ==
    LET c == last.calls
        At(e) == {k \in 1..Len(c) : c[k] = e}
    IN  last.op \in ConsumingSites \cup {"create_context"} =>
          \A j \in At("consume") :
             /\ \E i \in At("null_field") : i < j
             /\ \A k \in At("assign_field") : j < k

C29_NulledAfterConsuming ==
    /\ last.op = "Builder::with_definition"
    /\ ~last.threw
    /\ last.calls = <<"consume", "null_field", "assign_field">>

\* The foreign calls that can fail and leave a message in the last-error slot.
C31_FailingCalls == {"new", "call", "consume"}

\* C31: every read of the last-error slot ("c2pa_error") follows a foreign
\* call that can fail with no other foreign call, release calls included, in
\* between; an operation reads the slot at most once, and exactly once when
\* it throws the default-constructed C2paException.
C31_ErrorReadRightAfterFailure ==
    LET c == last.calls IN
    /\ \A k \in 1..Len(c) :
         c[k] = "c2pa_error" =>
            \E j \in 1..(k - 1) :
               /\ c[j] \in C31_FailingCalls
               /\ \A i \in (j + 1)..(k - 1) : c[i] \notin C27_ForeignCalls
    /\ Times(c, "c2pa_error") <= 1
    /\ last.exc = "C2paException()" => Times(c, "c2pa_error") = 1

C31_ReleasedBeforeRead ==
    /\ last.op = "Settings(data,format)"
    /\ last.exc = "C2paException()"
    /\ last.calls = <<"new", "call", "c2pa_free", "c2pa_error", "free_message">>

\* The constructors of Reader and Builder (from_archive is the public face of
\* Builder(std::istream&)).
C32_Constructors ==
    {"Reader(context,format,stream)", "Reader(context,path)", "Reader(stream)",
     "Builder(context)", "Builder(context,json)", "Builder(json)",
     "Builder::from_archive"}

\* C32: when a Reader or Builder constructor throws, the handle its field
\* held at the throw, if any, has been released, and every stream handle it
\* created has been released: nothing it created stays live without a wrapper.
C32_ThrowingConstructorLeavesNothing ==
    (last.op \in C32_Constructors /\ last.threw) =>
        /\ last.field # NULL => Times(last.calls, "c2pa_free") = 1
        /\ Times(last.calls, "release_stream") = Times(last.calls, "create_stream")

C32_ReaderHandleLeaked ==
    /\ last.op = "Reader(context,format,stream)"
    /\ last.threw
    /\ last.field # NULL
    /\ last.calls = <<"c_context", "new", "create_stream_null">>
    /\ \A o \in BagToSet(objs) : o.ptr # last.field

\* C37: when the user's signing callback threw, the trampoline kept the
\* exception's diagnostic content where the caller of Builder::sign can
\* read it after the failure.
C37_CallbackDiagnosticKept ==
    sig.cb \in {"std::exception", "other"} => sig.diag # "none"

\* The callback threw a std::exception; Builder::sign raised C2paException
\* built from the foreign last error, errno was not set and nothing of the
\* exception was kept.
C37_DiagnosticDiscarded ==
    /\ sig.cb = "std::exception"
    /\ sig.ret = -1
    /\ sig.err = 0
    /\ sig.diag = "none"
    /\ sig.sign = "C2paException()"

\* Position of the first occurrence of e in s, 0 when there is none.
C38_First(s, e) ==
    IF Times(s, e) = 0 THEN 0
    ELSE CHOOSE i \in 1..Len(s) : s[i] = e /\ \A j \in 1..(i - 1) : s[j] # e

\* C38: for every (pointer, length) pair of the four members returning a
\* byte vector, a negative length or a null pointer raises an exception and
\* otherwise the vector holds exactly the first length bytes at the
\* pointer; either way the foreign buffer is released exactly once and is
\* not read after its release.
C38_ByteVectorFromPair ==
    vec.op # "none" =>
        /\ vec.threw <=> (vec.size < 0 \/ vec.data.ptr = NULL)
        /\ ~vec.threw =>
              /\ Len(vec.result) = vec.size
              /\ \A i \in 1..vec.size : vec.result[i] = vec.data.bytes[i]
        /\ Times(vec.steps, "c2pa_free") = 1
        /\ \A i \in 1..Len(vec.steps) :
              vec.steps[i] = "copy" => i < C38_First(vec.steps, "c2pa_free")

\* A failed call that stored a buffer: the buffer was released and the
\* exception raised.
C38_FailedCallBufferReleased ==
    /\ vec.op = "sign"
    /\ vec.size < 0
    /\ vec.data.ptr # NULL
    /\ vec.threw
    /\ Times(vec.steps, "c2pa_free") = 1

----------------------------------------------------------------------------
(* Properties of the stream callbacks.                                     *)

\* The callback that returns in this step is one the adapter class does not
\* support.
Unsupported ==
    \/ variant = "I" /\ called'.cb \in {"writer", "flusher"}
    \/ variant = "O" /\ called'.cb = "reader"

C7_BadBitGivesEIO ==
    [][(Idle /\ called'.hard /\ ~strm.bad /\ strm'.bad)
          => (ret' = -1 /\ errno_' = EIO)]_vars

\* C8: a seek to a negative offset from Start fails with EINVAL, and a seek
\* on a stream whose file was closed fails with EIO.
C8_SeekErrors ==
    [][(Idle /\ called'.cb = "seeker" /\ called'.ctx /\ ~called'.hard /\ ~strm.bad)
          => /\ (called'.whence = "Start" /\ called'.off < 0 /\ strm.open)
                   => (ret' = -1 /\ errno_' = EINVAL)
             /\ (strm.file /\ ~strm.open)
                   => (ret' = -1 /\ errno_' = EIO)]_vars

\* C9: the writer of CppOStream and CppIOStream returns -1 with an error
\* code and writes nothing when size is negative or the buffer or the
\* context is null.
C9_WriterRejectsBadInput ==
    [][(/\ Idle
        /\ called'.cb = "writer"
        /\ variant # "I"
        /\ (called'.size < 0 \/ ~called'.buffer \/ ~called'.ctx))
          => /\ called'.ub = "none"
             /\ ret' = -1
             /\ errno_' # 0
             /\ strm'.data = strm.data]_vars

\* A stream a read can be tried on: no badbit, and failbit only together
\* with eofbit (as a read that reached the end leaves it).
Readable(s) == ~s.bad /\ (s.fail => s.eof)

\* C10: on such a stream with r bytes left, the reader called with valid
\* pointers and size n > 0 returns min(n, r), stores exactly the next
\* min(n, r) bytes and advances the get position by as much, setting no
\* error code; with size 0 it returns 0 and leaves the stream alone.
C10_ReadCount ==
    [][(/\ Idle
        /\ called'.cb = "reader"
        /\ variant # "O"
        /\ called'.ctx /\ called'.buffer /\ ~called'.hard
        /\ called'.size >= 0
        /\ Readable(strm))
          => LET n == called'.size
                 c == Min(n, Remaining(strm))
             IN  IF n = 0 THEN ret' = 0 /\ strm' = strm
                 ELSE /\ ret' = c
                      /\ errno_' = 0
                      /\ outbuf' = SubSeq(strm.data, strm.g + 1, strm.g + c)
                      /\ strm'.g = strm.g + c
                      /\ strm'.data = strm.data]_vars

\* A read that was cut short by the end of the stream.
C10_ShortRead ==
    /\ called.cb = "reader"
    /\ called.size = MaxSize
    /\ ret > 0 /\ ret < called.size
    /\ Len(outbuf) = ret
    /\ strm.eof
    /\ strm.g = Len(strm.data)


\* C30: when the seeker, called with a context, has returned -1, a stream
\* whose buffer failed hard has its badbit left set, and a stream that is not
\* bad (the seek failed softly) has no error flag set, so that the failed
\* seek does not make the next callback fail.
C30_SoftSeekFailureCleared ==
    (called.cb = "seeker" /\ called.ctx /\ ret = -1) =>
        /\ called.hard => strm.bad
        /\ ~strm.bad => good(strm)

C30_FailbitLeftSet ==
    /\ called.cb = "seeker"
    /\ called.ctx /\ ~called.hard
    /\ called.whence = "Start" /\ called.off = -1
    /\ ret = -1 /\ errno_ = EINVAL
    /\ strm.fail /\ ~strm.bad

\* C33: when the seeker of a read-write adapter has returned a position, the
\* wrapped stream's get position and its put position are both that
\* position, so the next read reads from it and the next write writes at it.
C33_SeekSetsBothPositions ==
    (variant = "IO" /\ called.cb = "seeker" /\ ret >= 0) =>
        /\ strm.g = ret
        /\ strm.p = ret

C33_PositionsApartAfterSeek ==
    /\ variant = "IO"
    /\ ~strm.file
    /\ called.cb = "seeker"
    /\ called.whence = "Current" /\ called.off = 0
    /\ ret = strm.p
    /\ strm.g # strm.p

\* The callback that returns in this step is a seek, write or flush, or a
\* read with a buffer and a positive size, on the wrapped stream.
C34_Tried ==
    /\ Idle
    /\ called'.ctx
    /\ \/ called'.cb \in {"seeker", "writer", "flusher"}
       \/ called'.cb = "reader" /\ called'.buffer /\ called'.size > 0

\* C34 as claimed: once badbit is set it stays set, and every such callback
\* returns -1 with EIO and leaves the stream as it was.
C34_BadStreamGivesEIO ==
    [][strm.bad => /\ strm'.bad
                   /\ C34_Tried => (ret' = -1 /\ errno_' = EIO /\ strm' = strm)]_vars

\* C34 as amended: the same for the callbacks the adapter class supports (the
\* others return -1 with EINVAL, whatever the stream's state).
C34_BadStreamGivesEIOWhenSupported ==
    [][strm.bad => /\ strm'.bad
                   /\ (C34_Tried /\ ~Unsupported)
                        => (ret' = -1 /\ errno_' = EIO /\ strm' = strm)]_vars

C34_SeekOnBadStream ==
    /\ called.cb = "seeker"
    /\ called.ctx
    /\ strm.bad
    /\ ret = -1 /\ errno_ = EIO

C36_SeekReturnsAbsolutePosition ==
    [][(Idle /\ called'.cb = "seeker" /\ called'.whence \in {"Start", "Current", "End"})
          => /\ ret' >= -1
             /\ ret' >= 0 =>
                  LET target(cur) ==
                        called'.off + CASE called'.whence = "Start" -> 0
                                        [] called'.whence = "Current" -> cur
                                        [] called'.whence = "End" -> Len(strm.data)
                  IN  /\ variant # "O" => (ret' = target(strm.g) /\ strm'.g = ret')
                      /\ variant # "I" => (ret' = target(strm.p) /\ strm'.p = ret')]_vars

\* A seek from Current with offset 1 on a read-write adapter over a file
\* stream, which has one position for reading and writing, returned 2 on a
\* file that is empty.
C36_OffsetAppliedTwice ==
    /\ variant = "IO"
    /\ strm.file
    /\ Len(strm.data) = 0
    /\ called.cb = "seeker"
    /\ called.whence = "Current" /\ called.off = 1
    /\ ret = 2
====
